---------------------------- MODULE Spec2Model ----------------------------
(***************************************************************************)
(* A model of the fintalk call-centre assistant: the three tool functions  *)
(* of agent/tools.py over the cardholders table of api/models.py, and the  *)
(* request/response protocol layer of api/views.py (health probe and the   *)
(* agent-query endpoint in batch and streaming mode).                      *)
(*                                                                         *)
(* Text is modelled as a sequence of tokens.  Data that the code slices,   *)
(* strips or matches character by character (phone numbers, card numbers,  *)
(* request messages) is a sequence of one-character tokens; the literal    *)
(* fragments of an f-string are one token each.  "x in text" for texts is  *)
(* Contains(text, x).                                                      *)
(***************************************************************************)
EXTENDS Integers, Sequences, FiniteSets, TLC

VARIABLES
    store,      \* the cardholders table: row id -> row
    clock,      \* the last instant timezone.now() returned
    last,       \* the tool call that ran last: arguments, state before, outcome
    llm,        \* agent.bedrock_client.llm : "BedrockConverse" or "None"
    agent,      \* agent.agent.agent        : "ReActAgent" or "None"
    pc,         \* where the request-handling worker is
    req,        \* the request being handled
    resp,       \* the HTTP response returned for it
    sse,        \* the events the streaming body has yielded so far
    runs,       \* the prompts agent.run() was called with for this request
    produced,   \* what the delegate run did: the events of stream_events(), then how it ended
    steps,      \* the processing steps the handler ran for this request, in order
    workers,    \* the tool calls in progress, one per concurrent request
    writes,     \* the row updates that reached storage, in the order they reached it
    calls,      \* the card tool calls of a sequential series, in order, each with the table before and after it
    retry       \* the run of a retry helper: its parameters, the attempts made, the waits, the result

toolVars == <<store, clock, last>>
apiVars  == <<llm, agent, pc, req, resp, sse, runs, produced>>
uploadVars == <<steps>>
raceVars == <<workers, writes, calls>>
retryVars == <<retry>>
vars     == <<store, clock, last, llm, agent, pc, req, resp, sse, runs, produced,
              steps, workers, writes, calls, retry>>

----------------------------------------------------------------------------
(* Bounds of the model *)

MaxPhoneLen == 2     \* longest phone-number argument a tool is called with
MaxClock    == 2     \* the clock stops being read beyond this instant
MaxNodes    == 1     \* most source nodes a retrieval response carries
MaxEvents   == 3     \* most events a delegate stream produces
MaxToolCalls == 2    \* most tool calls a delegate response reports

----------------------------------------------------------------------------
(* Text helpers: Python's str operations on token sequences *)

\* sub in text
Contains(text, sub) ==
    \E i \in 1..(Len(text) - Len(sub) + 1) : SubSeq(text, i, i + Len(sub) - 1) = sub

\* s.startswith(prefix)
StartsWith(s, prefix) ==
    Len(s) >= Len(prefix) /\ SubSeq(s, 1, Len(prefix)) = prefix

\* s[-n:]
Suffix(s, n) == IF Len(s) <= n THEN s ELSE SubSeq(s, Len(s) - n + 1, Len(s))

RECURSIVE LStrip(_)
LStrip(s) == IF s # <<>> /\ Head(s) = " " THEN LStrip(Tail(s)) ELSE s

RECURSIVE RStrip(_)
RStrip(s) == IF s # <<>> /\ s[Len(s)] = " " THEN RStrip(SubSeq(s, 1, Len(s) - 1)) ELSE s

\* s.strip()
Strip(s) == RStrip(LStrip(s))

DigitChar == <<"0", "1", "2", "3", "4", "5", "6", "7", "8", "9">>

RECURSIVE Digits(_)
\* str(n) for a natural number
Digits(n) == IF n < 10 THEN <<DigitChar[n + 1]>>
             ELSE Digits(n \div 10) \o <<DigitChar[(n % 10) + 1]>>

RECURSIVE ZeroPad(_, _)
ZeroPad(s, width) == IF Len(s) >= width THEN s ELSE ZeroPad(<<"0">> \o s, width)

----------------------------------------------------------------------------
(* The account store: api/models.py *)

CARD_STATUS_CHOICES == {"active", "blocked"}

\* datetime.isoformat() of an aware UTC datetime; an instant is a number of
\* microseconds after the epoch, and isoformat drops a zero fraction
Isoformat(t) ==
    IF t % 1000000 = 0
    THEN <<"1970-01-01T00:00:">> \o ZeroPad(Digits(t \div 1000000), 2) \o <<"+00:00">>
    ELSE <<"1970-01-01T00:00:">> \o ZeroPad(Digits(t \div 1000000), 2) \o <<".">>
         \o ZeroPad(Digits(t % 1000000), 6) \o <<"+00:00">>

\* the rows an administrative seed process has inserted; phone numbers are
\* free-form strings, card numbers are stored as provided
SeedRows ==
    << [id |-> 1, username |-> <<"john_doe">>,
        phone_number |-> <<"+", "1">>,
        credit_card_number |-> <<"4", "5", "3", "2", "-", "9", "0", "1", "0">>],
       [id |-> 2, username |-> <<"bob_johnson">>,
        phone_number |-> <<"+", "1", "1">>,
        credit_card_number |-> <<"3", "7", "8">>],
       [id |-> 3, username |-> <<"jane_smith">>,
        phone_number |-> <<"1">>,
        credit_card_number |-> <<"5", "4", "2", "5", "0", "1", "2", "3">>] >>

RowIds == 1..Len(SeedRows)

\* CardHolder.objects.create(**user_data): created_at (auto_now_add) and
\* updated_at (auto_now) are both set to the instant of the insert
CreateRow(data, status, t) ==
    [id |-> data.id, username |-> data.username, phone_number |-> data.phone_number,
     credit_card_number |-> data.credit_card_number, card_status |-> status,
     created_at |-> t, updated_at |-> t]

\* CardHolder.objects.get(phone_number=p): the matching rows (unique=True
\* on phone_number leaves at most one)
ObjectsGet(st, p) == {i \in DOMAIN st : st[i].phone_number = p}

\* faulty variant: created_at declared auto_now too: every save refreshes it
PreSaveBothStamps(inst, tSave) == [inst EXCEPT !.updated_at = tSave, !.created_at = tSave]

\* DateTimeField(auto_now=True).pre_save: on every save the attribute is
\* overwritten with timezone.now() read at save time; that value is what
\* the UPDATE persists and what the instance carries afterwards
PreSave(inst, tSave) == [inst EXCEPT !.updated_at = tSave]

\* faulty variant: save(update_fields=['card_status']): updated_at is not written
SaveStatusOnly(st, inst) == [st EXCEPT ![inst.id].card_status = inst.card_status]

\* cardholder.save(): UPDATE of every column of the row with the instance's
\* primary key
Save(st, inst) == [st EXCEPT ![inst.id] = inst]

----------------------------------------------------------------------------
(* Exceptions and outcomes of a call *)

Exc(cls, text) == [cls |-> cls, text |-> text]

\* the classes that derive from the builtin ConnectionError
ConnectionErrorClasses == {"ConnectionError", "ConnectionRefusedError"}

\* isinstance(e, ConnectionError)
IsConnectionError(e) == e.cls \in ConnectionErrorClasses

Return(value) == [kind |-> "return", value |-> value]
Raise(e)      == [kind |-> "raise", exc |-> e]

----------------------------------------------------------------------------
(* Tool functions: agent/tools.py *)

\* a None passed where the signature says str
NoneArg == <<"None">>

Chars == {"+", "1"}

RECURSIVE SeqsUpTo(_, _)
SeqsUpTo(S, n) == IF n = 0 THEN {<<>>}
                  ELSE LET shorter == SeqsUpTo(S, n - 1)
                       IN shorter \cup {Append(s, c) : s \in shorter, c \in S}

\* the phone_number arguments the delegate may call a tool with
PhoneArgs == SeqsUpTo(Chars, MaxPhoneLen) \cup {NoneArg}

\* the faults of the relational store during one call
StoreFaults == {"none", "get", "save"}

OperationalError == Exc("OperationalError", <<"connection refused">>)
AttributeError   == Exc("AttributeError", <<"'NoneType' object has no attribute 'startswith'">>)

\* faulty variant: the argument is looked up as given
NormalizePhoneSkipped(phone_number) == phone_number

\* if not phone_number.startswith('+'): phone_number = '+' + phone_number
NormalizePhone(phone_number) ==
    IF ~StartsWith(phone_number, <<"+">>) THEN <<"+">> \o phone_number ELSE phone_number

\* faulty variant: the slice [-5:]
Last4OneMore(credit_card_number) == Suffix(credit_card_number, 5)

\* cardholder.credit_card_number[-4:]
Last4(credit_card_number) == Suffix(credit_card_number, 4)

\* the f-string of tools.py:125-129
BlockAlreadyMsg(phone_number, cardholder) ==
    <<"Credit card for phone number ">> \o phone_number \o <<" is ", "already blocked", ".\n">>
    \o <<"Card ending in: ">> \o Last4(cardholder.credit_card_number)
    \o <<"\nUsername: ">> \o cardholder.username

\* the f-string of tools.py:137-142
BlockSuccessMsg(phone_number, cardholder) ==
    <<"Successfully blocked credit card", " for phone number ">> \o phone_number \o <<".\n">>
    \o <<"Card ending in: ">> \o Last4(cardholder.credit_card_number)
    \o <<"\nUsername: ">> \o cardholder.username
    \o <<"\nBlocked at: ">> \o Isoformat(cardholder.updated_at)

\* the f-string of tools.py:182-186
EnableAlreadyMsg(phone_number, cardholder) ==
    <<"Credit card for phone number ">> \o phone_number \o <<" is ", "already active", ".\n">>
    \o <<"Card ending in: ">> \o Last4(cardholder.credit_card_number)
    \o <<"\nUsername: ">> \o cardholder.username

\* the f-string of tools.py:194-199
EnableSuccessMsg(phone_number, cardholder) ==
    <<"Successfully enabled credit card", " for phone number ">> \o phone_number \o <<".\n">>
    \o <<"Card ending in: ">> \o Last4(cardholder.credit_card_number)
    \o <<"\nUsername: ">> \o cardholder.username
    \o <<"\nEnabled at: ">> \o Isoformat(cardholder.updated_at)

\* except CardHolder.DoesNotExist
NotFoundMsg(phone_number) ==
    <<"No cardholder found", " with phone number: ">> \o phone_number

\* faulty variant: no catch-all handler: the exception leaves the tool
CatchAllMissing(prefix, e) == Raise(e)

\* except Exception as e: return f"Error ...: {str(e)}"
CatchAll(prefix, e) == Return(<<prefix, ": ">> \o e.text)

\* faulty variant: the "already" check left out: every call writes
AlreadyNeverChecked(cardholder, status) == FALSE

\* if cardholder.card_status == 'blocked' (tools.py:123) and
\* if cardholder.card_status == 'active' (tools.py:180)
AlreadyInStatus(cardholder, status) == cardholder.card_status = status

\* What a call leaves behind: the table, the clock and the call's outcome
Effect(st, clk, outcome) == [store |-> st, clock |-> clk, outcome |-> outcome]

\* block_credit_card(phone_number) run against table st at clock clk.
\* fault is the failure of the relational store during the call; tNow is
\* the instant timezone.now() returns at line 133 and tSave the instant
\* the auto_now pre_save reads inside save().
block_credit_card(st, clk, phone_number, fault, tNow, tSave) ==
    IF phone_number = NoneArg
    THEN Effect(st, clk, CatchAll("Error blocking credit card", AttributeError))
    ELSE
    LET normalized == NormalizePhone(phone_number)
        found == ObjectsGet(st, normalized)
    IN  IF fault = "get"
        THEN Effect(st, clk, CatchAll("Error blocking credit card", OperationalError))
        ELSE IF found = {}
        THEN Effect(st, clk, Return(NotFoundMsg(normalized)))
        ELSE
        LET cardholder == st[CHOOSE i \in found : TRUE]
        IN  IF AlreadyInStatus(cardholder, "blocked")
            THEN Effect(st, clk, Return(BlockAlreadyMsg(normalized, cardholder)))
            ELSE
            LET assigned == [cardholder EXCEPT !.card_status = "blocked",
                                               !.updated_at = tNow]
                saved == PreSave(assigned, tSave)
            IN  IF fault = "save"
                THEN Effect(st, tSave, CatchAll("Error blocking credit card", OperationalError))
                ELSE Effect(Save(st, saved), tSave,
                            Return(BlockSuccessMsg(normalized, saved)))

\* enable_credit_card(phone_number), as block_credit_card
enable_credit_card(st, clk, phone_number, fault, tNow, tSave) ==
    IF phone_number = NoneArg
    THEN Effect(st, clk, CatchAll("Error enabling credit card", AttributeError))
    ELSE
    LET normalized == NormalizePhone(phone_number)
        found == ObjectsGet(st, normalized)
    IN  IF fault = "get"
        THEN Effect(st, clk, CatchAll("Error enabling credit card", OperationalError))
        ELSE IF found = {}
        THEN Effect(st, clk, Return(NotFoundMsg(normalized)))
        ELSE
        LET cardholder == st[CHOOSE i \in found : TRUE]
        IN  IF AlreadyInStatus(cardholder, "active")
            THEN Effect(st, clk, Return(EnableAlreadyMsg(normalized, cardholder)))
            ELSE
            LET assigned == [cardholder EXCEPT !.card_status = "active",
                                               !.updated_at = tNow]
                saved == PreSave(assigned, tSave)
            IN  IF fault = "save"
                THEN Effect(st, tSave, CatchAll("Error enabling credit card", OperationalError))
                ELSE Effect(Save(st, saved), tSave,
                            Return(EnableSuccessMsg(normalized, saved)))

\* the nodes a retrieval response may carry: text, the filename of its
\* metadata when the key is there, and the similarity score in thousandths
\* (an empty score is None)
Nodes ==
    { [text |-> <<"loan terms">>, has_filename |-> TRUE,  filename |-> <<"report.pdf">>, score |-> <<875>>],
      [text |-> <<"rates">>,      has_filename |-> FALSE, filename |-> <<>>,             score |-> <<1000>>],
      [text |-> <<"fees">>,       has_filename |-> TRUE,  filename |-> <<"fees.txt">>,   score |-> <<>>] }

\* the responses of query_engine.query: with or without a source_nodes attribute
QueryResponses ==
    [has_source_nodes : {TRUE}, source_nodes : SeqsUpTo(Nodes, MaxNodes)]
    \cup {[has_source_nodes |-> FALSE, source_nodes |-> <<>>]}

Queries == {<<"loan rates?">>}

\* the step of the retrieval path that fails during one call
SearchFaults == {"none", "get_vector_store", "from_vector_store", "as_query_engine", "query"}

\* what each failing step raises
SearchFaultExc(fault) ==
    IF fault = "get_vector_store"
    THEN Exc("ConnectionError", <<"Unable to create OpenSearch vector store">>)
    ELSE IF fault = "query"
    THEN Exc("ConnectionRefusedError", <<"opensearch unreachable">>)
    ELSE Exc("ValueError", <<"embedding model is not set">>)

\* f"{node.score:.3f}" for a score given in thousandths
Format3f(n) == Digits(n \div 1000) \o <<".">> \o ZeroPad(Digits(n % 1000), 3)

\* node.metadata.get('filename', 'Unknown')
MetadataFilename(node) == IF node.has_filename THEN node.filename ELSE <<"Unknown">>

\* one formatted_results entry (tools.py:76-81)
FormatNode(idx, node) ==
    <<"[Result ">> \o Digits(idx) \o <<"]\n", "Content: ">> \o node.text
    \o <<"\nSource: ">> \o MetadataFilename(node)
    \o <<"\nSimilarity: ">> \o Format3f(node.score[1]) \o <<"\n">>

RECURSIVE JoinNodes(_, _)
\* "\n".join(formatted_results) over enumerate(source_nodes, idx)
JoinNodes(nodes, idx) ==
    IF nodes = <<>> THEN <<>>
    ELSE IF Len(nodes) = 1 THEN FormatNode(idx, nodes[1])
    ELSE FormatNode(idx, nodes[1]) \o <<"\n">> \o JoinNodes(Tail(nodes), idx + 1)

\* search_documents(query): the outcome of the call
search_documents(query, fault, response) ==
    IF fault # "none"
    THEN CatchAll("Error searching documents", SearchFaultExc(fault))
    ELSE IF response.has_source_nodes /\ response.source_nodes # <<>>
    THEN IF \E i \in 1..Len(response.source_nodes) : response.source_nodes[i].score = <<>>
         THEN CatchAll("Error searching documents",
                       Exc("TypeError", <<"unsupported format string passed to NoneType.__format__">>))
         ELSE Return(JoinNodes(response.source_nodes, 1))
    ELSE Return(<<"No relevant documents found for your query.">>)

----------------------------------------------------------------------------
(* The tool functions as operations on the account store.  Instants are    *)
(* abstract: a call that reads timezone.now() reads an instant later than  *)
(* every instant read before it (the row was fetched in between), and the  *)
(* auto_now read inside save() is that instant or the next one.            *)

NoCall == [op |-> "none"]

\* no retry helper is running
NoRetry == [pc |-> "idle"]

\* the worker and the delegate clients while only the tools are observed
ApiIdle ==
    /\ llm = "BedrockConverse"
    /\ agent = "ReActAgent"
    /\ pc = "idle"
    /\ req = [endpoint |-> "none"]
    /\ resp = [status |-> 0, content_type |-> "", body |-> <<>>]
    /\ sse = <<>>
    /\ runs = <<>>
    /\ produced = <<>>
    /\ steps = <<>>

\* no tool call is in progress
NoWorkers ==
    /\ workers = <<>>
    /\ writes = <<>>
    /\ calls = <<>>
    /\ retry = NoRetry

\* the table after the seed process: every row inserted at instant 0
InitStore ==
    /\ clock = 0
    /\ \E s1, s2 \in CARD_STATUS_CHOICES :
          store = [i \in RowIds |->
                     CreateRow(SeedRows[i], IF i = 1 THEN s1 ELSE IF i = 2 THEN s2 ELSE "active", 0)]
    /\ last = NoCall
    /\ NoWorkers

InitTools == InitStore /\ ApiIdle

\* whether the call read timezone.now() at all (only then does the time the
\* save takes matter)
ReadsClock(effect, clk) == effect.clock # clk

BlockCreditCard ==
    \E p \in PhoneArgs, f \in StoreFaults :
        \E d \in IF ReadsClock(block_credit_card(store, clock, p, f, clock + 1, clock + 1), clock)
                 THEN 0..1 ELSE {0} :
            LET r == block_credit_card(store, clock, p, f, clock + 1, clock + 1 + d)
            IN  /\ r.clock <= MaxClock
                /\ store' = r.store
                /\ clock' = r.clock
                /\ last' = [op |-> "block_credit_card", arg |-> p, fault |-> f,
                            pre |-> store, outcome |-> r.outcome]
                /\ UNCHANGED <<apiVars, uploadVars, raceVars, retryVars>>

EnableCreditCard ==
    \E p \in PhoneArgs, f \in StoreFaults :
        \E d \in IF ReadsClock(enable_credit_card(store, clock, p, f, clock + 1, clock + 1), clock)
                 THEN 0..1 ELSE {0} :
            LET r == enable_credit_card(store, clock, p, f, clock + 1, clock + 1 + d)
            IN  /\ r.clock <= MaxClock
                /\ store' = r.store
                /\ clock' = r.clock
                /\ last' = [op |-> "enable_credit_card", arg |-> p, fault |-> f,
                            pre |-> store, outcome |-> r.outcome]
                /\ UNCHANGED <<apiVars, uploadVars, raceVars, retryVars>>

SearchDocuments ==
    \E q \in Queries, f \in SearchFaults, r \in QueryResponses :
        /\ last' = [op |-> "search_documents", arg |-> q, fault |-> f, response |-> r,
                    pre |-> store, outcome |-> search_documents(q, f, r)]
        /\ UNCHANGED <<store, clock>>
        /\ UNCHANGED <<apiVars, uploadVars, raceVars, retryVars>>

NextTools == BlockCreditCard \/ EnableCreditCard \/ SearchDocuments

SpecTools == InitTools /\ [][NextTools]_vars

----------------------------------------------------------------------------
(* Inserts into the account store: api/models.py and the seed command.     *)
(* The table starts empty and rows are inserted one by one.                *)

\* the rows an administrative process may try to insert
NewRows ==
    [username : {<<"john_doe">>, <<"jane_doe">>},
     phone_number : {<<"+", "1">>, <<"+", "1", "1">>},
     credit_card_number : {<<"4", "5", "3", "2", "0", "3", "6", "6">>},
     card_status : CARD_STATUS_CHOICES]

IntegrityError == Exc("IntegrityError", <<"duplicate key value violates unique constraint">>)

\* faulty variant: username declared without unique=True
UniqueViolationPhoneOnly(st, data) ==
    \E i \in DOMAIN st : st[i].phone_number = data.phone_number

\* the unique=True constraints of username and phone_number, as the
\* database enforces them on an insert
UniqueViolation(st, data) ==
    \E i \in DOMAIN st : \/ st[i].username = data.username
                         \/ st[i].phone_number = data.phone_number

\* CardHolder.objects.create(**user_data) at instant t: the table and the
\* outcome (the new row's id, or IntegrityError with the table unchanged)
create(st, data, t) ==
    IF UniqueViolation(st, data)
    THEN [store |-> st, outcome |-> Raise(IntegrityError)]
    ELSE [store |-> Append(st, CreateRow([id |-> Len(st) + 1, username |-> data.username,
                                          phone_number |-> data.phone_number,
                                          credit_card_number |-> data.credit_card_number],
                                         data.card_status, t)),
          outcome |-> Return(Len(st) + 1)]

InitEmptyStore ==
    /\ store = <<>>
    /\ clock = 0
    /\ last = NoCall
    /\ NoWorkers
    /\ ApiIdle

CreateCardHolder ==
    /\ clock < MaxClock
    /\ \E data \in NewRows :
          LET r == create(store, data, clock + 1)
          IN  /\ store' = r.store
              /\ last' = [op |-> "create", arg |-> data, pre |-> store, outcome |-> r.outcome]
    /\ clock' = clock + 1
    /\ UNCHANGED <<apiVars, uploadVars, raceVars, retryVars>>

NextStore == CreateCardHolder \/ BlockCreditCard \/ EnableCreditCard

SpecStore == InitEmptyStore /\ [][NextStore]_vars

----------------------------------------------------------------------------
(* Concurrent tool calls: agent/tools.py run by several workers at once.   *)
(* A call is a read of one row (objects.get and the "already" check on the *)
(* fetched instance) followed later by save() of that instance; nothing    *)
(* locks the row in between and save() checks nothing.                     *)

MaxWrites == 3

RaceWorkers == {1, 2}

\* the arguments of the concurrent calls: two spellings of one account's
\* number and an unknown number
RacePhones == {<<"+", "1">>, <<"1">>, <<"9">>}

ToolStatus(op) == IF op = "block_credit_card" THEN "blocked" ELSE "active"

WorkerIdle(outcome) == [pc |-> "idle", outcome |-> outcome]

\* a worker between its read and its save: the instance it fetched and the
\* number of writes that had reached storage when it read
WorkerFetched(op, phone_number, cardholder, seen) ==
    [pc |-> "fetched", op |-> op, phone_number |-> phone_number,
     cardholder |-> cardholder, seen |-> seen]

\* faulty variant: an optimistic concurrency check: the UPDATE applies only
\* if the row is still as it was read
save_if_unchanged(st, cardholder, status, t) ==
    IF st[cardholder.id] = cardholder
    THEN Save(st, PreSave([cardholder EXCEPT !.card_status = status, !.updated_at = t], t))
    ELSE st

\* cardholder.card_status = ...; cardholder.updated_at = timezone.now();
\* cardholder.save(): every column of the row is overwritten from the
\* instance fetched earlier
save_fetched(st, cardholder, status, t) ==
    Save(st, PreSave([cardholder EXCEPT !.card_status = status, !.updated_at = t], t))

AlreadyMsg(op, phone_number, cardholder) ==
    IF op = "block_credit_card" THEN BlockAlreadyMsg(phone_number, cardholder)
    ELSE EnableAlreadyMsg(phone_number, cardholder)

SuccessMsg(op, phone_number, cardholder) ==
    IF op = "block_credit_card" THEN BlockSuccessMsg(phone_number, cardholder)
    ELSE EnableSuccessMsg(phone_number, cardholder)

InitRace ==
    /\ clock = 0
    /\ \E s1, s2 \in CARD_STATUS_CHOICES :
          store = [i \in RowIds |->
                     CreateRow(SeedRows[i], IF i = 1 THEN s1 ELSE IF i = 2 THEN s2 ELSE "active", 0)]
    /\ last = NoCall
    /\ workers = [w \in RaceWorkers |-> WorkerIdle(Return(<<>>))]
    /\ writes = <<>>
    /\ calls = <<>>
    /\ retry = NoRetry
    /\ ApiIdle

\* an idle worker starts a call: normalisation, objects.get and the
\* "already" check
ToolRead(w) ==
    /\ workers[w].pc = "idle"
    /\ \E op \in {"block_credit_card", "enable_credit_card"}, p \in RacePhones :
          LET normalized == NormalizePhone(p)
              found == ObjectsGet(store, normalized)
              cardholder == store[CHOOSE i \in found : TRUE]
          IN  workers' = [workers EXCEPT ![w] =
                  IF found = {} THEN WorkerIdle(Return(NotFoundMsg(normalized)))
                  ELSE IF AlreadyInStatus(cardholder, ToolStatus(op))
                  THEN WorkerIdle(Return(AlreadyMsg(op, normalized, cardholder)))
                  ELSE WorkerFetched(op, normalized, cardholder, Len(writes))]
    /\ UNCHANGED <<store, clock, last, writes, calls, apiVars, uploadVars, retryVars>>

\* a worker that fetched a row saves it and returns
ToolSave(w) ==
    /\ workers[w].pc = "fetched"
    /\ Len(writes) < MaxWrites
    /\ \E t \in {clock, clock + 1} :
          LET me == workers[w]
              status == ToolStatus(me.op)
              written == save_fetched(store, me.cardholder, status, t)
          IN  /\ t <= MaxClock
              /\ store' = written
              /\ clock' = t
              /\ writes' = Append(writes, [worker |-> w, id |-> me.cardholder.id,
                                           status |-> status, seen |-> me.seen,
                                           read |-> me.cardholder.card_status])
              /\ workers' = [workers EXCEPT ![w] =
                    WorkerIdle(Return(SuccessMsg(me.op, me.phone_number,
                                                 written[me.cardholder.id])))]
    /\ UNCHANGED <<last, calls, apiVars, uploadVars, retryVars>>

NextRace == \E w \in RaceWorkers : ToolRead(w) \/ ToolSave(w)

SpecRace == InitRace /\ [][NextRace]_vars

----------------------------------------------------------------------------
(* A sequential series of card tool calls: agent/tools.py called one call  *)
(* after the other, each call logged with the table before and after it.   *)

MaxCalls == 3

\* the arguments of the calls of a series: two spellings of one account's
\* number and an unknown number
SeriesPhones == {<<"+", "1">>, <<"1">>, <<"9">>}

CalledInSeries(op, effect, p, f) ==
    /\ effect.clock <= MaxClock
    /\ store' = effect.store
    /\ clock' = effect.clock
    /\ last' = [op |-> op, arg |-> p, fault |-> f, pre |-> store, outcome |-> effect.outcome]
    /\ calls' = Append(calls, [op |-> op, arg |-> p, fault |-> f,
                               pre |-> store, post |-> effect.store])
    /\ UNCHANGED <<workers, writes, apiVars, uploadVars, retryVars>>

BlockInSeries ==
    /\ Len(calls) < MaxCalls
    /\ \E p \in SeriesPhones, f \in StoreFaults :
        \E d \in IF ReadsClock(block_credit_card(store, clock, p, f, clock + 1, clock + 1), clock)
                 THEN 0..1 ELSE {0} :
            CalledInSeries("block_credit_card",
                           block_credit_card(store, clock, p, f, clock + 1, clock + 1 + d), p, f)

EnableInSeries ==
    /\ Len(calls) < MaxCalls
    /\ \E p \in SeriesPhones, f \in StoreFaults :
        \E d \in IF ReadsClock(enable_credit_card(store, clock, p, f, clock + 1, clock + 1), clock)
                 THEN 0..1 ELSE {0} :
            CalledInSeries("enable_credit_card",
                           enable_credit_card(store, clock, p, f, clock + 1, clock + 1 + d), p, f)

NextSeries == BlockInSeries \/ EnableInSeries

SpecSeries == InitTools /\ [][NextSeries]_vars

----------------------------------------------------------------------------
(* The retry helpers: agent/vector_store.py retry_with_backoff and         *)
(* agent/bedrock_client.py retry_with_exponential_backoff.  Delays are in  *)
(* seconds; a message is a sequence of fragments.                          *)

MaxRetries == 2

\* what the wrapped function may do when called: return its client, or
\* raise (get_bedrock_llm raises BedrockAuthenticationError when the
\* credentials are not set and BedrockServiceError for any other failure)
WrappedOutcomes ==
    { Return(<<"client">>),
      Raise(Exc("BedrockServiceError",
                <<"Failed to initialize Bedrock LLM: ", "Read timed out">>)),
      Raise(Exc("BedrockServiceError",
                <<"Failed to initialize Bedrock LLM: ", "Access Denied">>)),
      Raise(Exc("BedrockAuthenticationError",
                <<"AWS ", "credentials", " not found. Please set AWS_ACCESS_KEY_ID">>)) }

\* str(e).lower(), fragment by fragment
LowerMessage(text) ==
    [i \in 1..Len(text) |-> IF text[i] = "Access Denied" THEN "access denied" ELSE text[i]]

AuthMarkers == {"credentials", "unauthorized", "forbidden", "access denied", "invalid token"}

\* any(auth_err in error_msg for auth_err in [...])
IsAuthError(e) == \E i \in 1..Len(e.text) : LowerMessage(e.text)[i] \in AuthMarkers

\* raise X(...) from e
RaiseFrom(cls, text, e) == [kind |-> "raise", exc |-> [cls |-> cls, text |-> text, cause |-> e]]

RECURSIVE Pow2(_)
Pow2(n) == IF n = 0 THEN 1 ELSE 2 * Pow2(n - 1)

\* faulty variant: the same delay before every retry
BackoffDelayFlat(initial_delay, attempt) == initial_delay

\* delay = initial_delay * (2 ** attempt)
BackoffDelay(initial_delay, attempt) == initial_delay * Pow2(attempt)

\* min(delay * exponential_base, max_delay), exponential_base = 2.0
NextDelay(delay, max_delay) == IF delay * 2 < max_delay THEN delay * 2 ELSE max_delay

\* a helper entered with its parameters, before its first attempt
RetryEntered(helper, max_retries, initial_delay, max_delay) ==
    [pc |-> "calling", helper |-> helper, max_retries |-> max_retries,
     initial_delay |-> initial_delay, max_delay |-> max_delay,
     attempt |-> 0, delay |-> initial_delay, attempts |-> <<>>, sleeps |-> <<>>]

RetryDone(r, outcome, result) ==
    [r EXCEPT !.pc = "done", !.attempts = Append(@, outcome)] @@ [result |-> result]

\* one iteration of the loop of retry_with_backoff, with the final
\* `raise last_exception` when it is the last one
backoff_attempt(r, outcome) ==
    IF outcome.kind = "return" THEN RetryDone(r, outcome, outcome)
    ELSE IF r.attempt < r.max_retries
    THEN [r EXCEPT !.attempts = Append(@, outcome),
                   !.sleeps = Append(@, BackoffDelay(r.initial_delay, r.attempt)),
                   !.attempt = @ + 1]
    ELSE RetryDone(r, outcome, Raise(outcome.exc))

\* one iteration of the loop of retry_with_exponential_backoff.wrapper,
\* with the final raise of BedrockServiceError when the loop is left
decorator_attempt(r, outcome) ==
    IF outcome.kind = "return" THEN RetryDone(r, outcome, outcome)
    ELSE IF r.attempt = r.max_retries
    THEN RetryDone(r, outcome,
                   RaiseFrom("BedrockServiceError",
                             <<"Bedrock service error after ">> \o Digits(r.max_retries)
                             \o <<" retries: ">> \o outcome.exc.text, outcome.exc))
    ELSE IF IsAuthError(outcome.exc)
    THEN RetryDone(r, outcome,
                   RaiseFrom("BedrockAuthenticationError",
                             <<"AWS authentication failed: ">> \o outcome.exc.text, outcome.exc))
    ELSE [r EXCEPT !.attempts = Append(@, outcome),
                   !.sleeps = Append(@, r.delay),
                   !.delay = NextDelay(r.delay, r.max_delay),
                   !.attempt = @ + 1]

InitRetry == InitTools

\* retry_with_backoff(func, max_retries, initial_delay) is called
CallRetryWithBackoff ==
    /\ retry.pc \in {"idle", "done"}
    /\ \E max_retries \in 0..MaxRetries, initial_delay \in {1, 2} :
          retry' = RetryEntered("retry_with_backoff", max_retries, initial_delay, 0)
    /\ UNCHANGED <<toolVars, apiVars, uploadVars, raceVars>>

\* a function decorated with retry_with_exponential_backoff is called
CallDecorated ==
    /\ retry.pc \in {"idle", "done"}
    /\ \E max_retries \in 0..MaxRetries, initial_delay \in {1, 2}, max_delay \in {3, 60} :
          retry' = RetryEntered("retry_with_exponential_backoff", max_retries,
                                initial_delay, max_delay)
    /\ UNCHANGED <<toolVars, apiVars, uploadVars, raceVars>>

BackoffAttempt ==
    /\ retry.pc = "calling"
    /\ retry.helper = "retry_with_backoff"
    /\ \E outcome \in WrappedOutcomes : retry' = backoff_attempt(retry, outcome)
    /\ UNCHANGED <<toolVars, apiVars, uploadVars, raceVars>>

DecoratorAttempt ==
    /\ retry.pc = "calling"
    /\ retry.helper = "retry_with_exponential_backoff"
    /\ \E outcome \in WrappedOutcomes : retry' = decorator_attempt(retry, outcome)
    /\ UNCHANGED <<toolVars, apiVars, uploadVars, raceVars>>

NextRetry == CallRetryWithBackoff \/ CallDecorated \/ BackoffAttempt \/ DecoratorAttempt

SpecRetry == InitRetry /\ [][NextRetry]_vars

----------------------------------------------------------------------------
(* Process start: agent/bedrock_client.py and agent/agent.py *)

\* faulty variant: get_agent() does not look at llm
get_agent_llm_unchecked(llmv, constructorFails) ==
    IF constructorFails
    THEN Raise(Exc("RuntimeError", <<"Agent initialization failed">>))
    ELSE Return("ReActAgent")

\* get_agent(): ValueError when llm is None, RuntimeError when the
\* ReActAgent constructor fails, the agent otherwise
get_agent(llmv, constructorFails) ==
    IF llmv = "None"
    THEN Raise(Exc("ValueError", <<"AWS Bedrock LLM is not initialized.">>))
    ELSE IF constructorFails
    THEN Raise(Exc("RuntimeError", <<"Agent initialization failed">>))
    ELSE Return("ReActAgent")

\* the module-level try/except around get_agent(): agent = None on any failure
AgentSingleton(llmv, constructorFails) ==
    LET r == get_agent(llmv, constructorFails)
    IN  IF r.kind = "return" THEN r.value ELSE "None"

----------------------------------------------------------------------------
(* Health probe: api/views.py health_check *)

Healthy(message)   == [status |-> "healthy", message |-> message]
Unhealthy(message) == [status |-> "unhealthy", message |-> message]

\* the outcomes of get_vector_store() and of the client test that follows
VectorStoreOutcomes == {"client", "no_client", "raises"}

\* try: cursor.execute("SELECT 1") ... except Exception
CheckPostgresql(cursorWorks) ==
    IF cursorWorks THEN Healthy(<<"Database connection successful">>)
    ELSE Unhealthy(<<"Database connection failed: ">> \o OperationalError.text)

\* try: get_vector_store(); client set? ... except Exception
CheckOpensearch(vectorStore) ==
    IF vectorStore = "client" THEN Healthy(<<"Vector store connection successful">>)
    ELSE IF vectorStore = "no_client"
    THEN Unhealthy(<<"Vector store connection failed: ", "Vector store client not initialized">>)
    ELSE Unhealthy(<<"Vector store connection failed: ", "Unable to create OpenSearch vector store">>)

\* try: llm is not None ... except Exception
CheckBedrock(llmv) ==
    IF llmv # "None" THEN Healthy(<<"AWS Bedrock client initialized">>)
    ELSE Unhealthy(<<"AWS Bedrock connection failed: ", "AWS Bedrock client not initialized">>)

\* faulty variant: the probe returns at the first failing check
HealthServicesShortCircuit(cursorWorks, vectorStore, llmv) ==
    LET pg == CheckPostgresql(cursorWorks)
        os == CheckOpensearch(vectorStore)
    IN  IF pg.status = "unhealthy" THEN [k \in {"postgresql"} |-> pg]
        ELSE IF os.status = "unhealthy"
        THEN [k \in {"postgresql", "opensearch"} |-> IF k = "postgresql" THEN pg ELSE os]
        ELSE [postgresql |-> pg, opensearch |-> os, aws_bedrock |-> CheckBedrock(llmv)]

\* health_status['services'] after the three try blocks, each of which
\* catches its own failure
HealthServices(cursorWorks, vectorStore, llmv) ==
    [postgresql  |-> CheckPostgresql(cursorWorks),
     opensearch  |-> CheckOpensearch(vectorStore),
     aws_bedrock |-> CheckBedrock(llmv)]

\* all_healthy: set False by every except branch
AllHealthy(services) == \A k \in DOMAIN services : services[k].status = "healthy"

\* health_check(request)
health_check(cursorWorks, vectorStore, llmv) ==
    LET services == HealthServices(cursorWorks, vectorStore, llmv)
    IN  IF ~AllHealthy(services)
        THEN [status |-> 503, content_type |-> "application/json",
              body |-> [status |-> "unhealthy", services |-> services]]
        ELSE [status |-> 200, content_type |-> "application/json",
              body |-> [status |-> "healthy", services |-> services]]

----------------------------------------------------------------------------
(* Agent-query endpoint: api/serializers.py and api/views.py *)

Fields == {"message", "phone_number", "stream"}

\* the values a request may carry for each field (one-character tokens)
FieldValues ==
    [message      |-> {<<>>, <<" ">>, <<"h", "i">>, <<" ", "h", "i", " ">>},
     phone_number |-> {<<>>, <<" ">>, <<"+", "1">>},
     stream       |-> {<<"true">>, <<"false">>, <<"maybe">>}]

\* request.data: any subset of the fields, each with one of its values
Payloads ==
    UNION { {d \in [D -> UNION {FieldValues[k] : k \in Fields}] :
                \A k \in D : d[k] \in FieldValues[k]} : D \in SUBSET Fields }

\* BooleanField(required=False, default=True)
ValidBoolean(v) == v \in {<<"true">>, <<"false">>}

\* faulty variant: the message field declared with allow_blank=True
MessageErrorsAllowBlank(data) ==
    IF "message" \notin DOMAIN data THEN <<"This field is required.">> ELSE <<>>

\* CharField(required=True): required, and after trimming not blank
MessageErrors(data) ==
    IF "message" \notin DOMAIN data THEN <<"This field is required.">>
    ELSE IF Strip(data["message"]) = <<>> THEN <<"This field may not be blank.">>
    ELSE <<>>

\* serializer.errors of AgentQuerySerializer: field -> message, for the
\* fields in error (phone_number is optional and may be blank)
SerializerErrors(data) ==
    LET streamErr == IF "stream" \in DOMAIN data /\ ~ValidBoolean(data["stream"])
                     THEN <<"Must be a valid boolean.">> ELSE <<>>
        bad == {k \in {"message", "stream"} :
                  (IF k = "message" THEN MessageErrors(data) ELSE streamErr) # <<>>}
    IN  [k \in bad |-> IF k = "message" THEN MessageErrors(data) ELSE streamErr]

\* serializer.validated_data, read the way agent_query reads it
ValidatedMessage(data) == Strip(data["message"])
ValidatedPhone(data) ==
    IF "phone_number" \in DOMAIN data THEN Strip(data["phone_number"]) ELSE <<>>
ValidatedStream(data) ==
    IF "stream" \in DOMAIN data THEN data["stream"] = <<"true">> ELSE TRUE

\* faulty variant: the agent-unavailable check left out
AgentUnavailableUnchecked(agentv) == FALSE

\* if agent is None (views.py:423)
AgentUnavailable(agentv) == agentv = "None"

JsonResponse(code, body) ==
    [status |-> code, content_type |-> "application/json", body |-> body]

StreamingResponse(code) ==
    [status |-> code, content_type |-> "text/event-stream", body |-> <<>>]

ErrorBody(code, message, details) ==
    [error |-> [code |-> code, message |-> message, details |-> details]]

AgentUnavailableBody ==
    ErrorBody("SERVICE_UNAVAILABLE", <<"Agent service is not available">>,
              <<"The AI agent failed to initialize. Please check AWS Bedrock configuration.">>)

\* faulty variant: the annotation is appended whether or not a phone
\* number was given
QueryTextAlwaysAnnotated(message, phone_number) ==
    message \o <<"\n\n[User phone number: ">> \o phone_number \o <<"]">>

\* query_text (views.py:446-450)
QueryText(message, phone_number) ==
    IF phone_number # <<>>
    THEN message \o <<"\n\n[User phone number: ">> \o phone_number \o <<"]">>
    ELSE message

TokenEvent(delta) == [type |-> "token", content |-> delta]
\* faulty variant: the completion event goes out as one more token
DoneEventAsToken  == [type |-> "token", content |-> ""]

\* completion_event (views.py:495-496)
DoneEvent         == [type |-> "done"]
ErrorEvent(content) == [type |-> "error", content |-> content]

\* the events a delegate stream may produce: AgentStream deltas and
\* workflow events of other classes
DelegateEvents ==
    { [cls |-> "AgentStream", delta |-> "Based"],
      [cls |-> "AgentStream", delta |-> " on"],
      [cls |-> "ToolCallResult", delta |-> ""] }

\* how a delegate run ended, kept after its events
Exhausted == [cls |-> "exhausted", delta |-> ""]
Returned  == [cls |-> "returned", delta |-> ""]
ReturnedWith(response) == [cls |-> "returned", delta |-> "", response |-> response]
Raised(e) == [cls |-> "raised", delta |-> "", exc |-> e]

\* what a delegate run may raise
DelegateExceptions ==
    { Exc("ConnectionError", <<"Unable to connect to OpenSearch">>),
      Exc("ConnectionRefusedError", <<"Connection refused">>),
      Exc("ValueError", <<"Agent processing error">>) }

\* faulty variant: every delegate event is re-emitted as a token
EmitForEvery(event) == <<TokenEvent(event.delta)>>

\* the body of the async for loop: one token event per AgentStream event
EmitFor(event) ==
    IF event.cls = "AgentStream" THEN <<TokenEvent(event.delta)>> ELSE <<>>

\* faulty variant: every failure is reported as an execution error
ErrorCodeAlwaysExecution(e) == "AGENT_EXECUTION_ERROR"

\* except ConnectionError ... except Exception: the code reported
ErrorCodeFor(e) ==
    IF IsConnectionError(e) THEN "SERVICE_UNAVAILABLE" ELSE "AGENT_EXECUTION_ERROR"

ErrorMessageFor(e) ==
    IF IsConnectionError(e) THEN <<"Unable to connect to required services">>
    ELSE <<"Agent execution failed">>

\* the error_event content of the streaming handlers
StreamErrorContent(e) ==
    [code |-> ErrorCodeFor(e), message |-> ErrorMessageFor(e), details |-> e.text]

\* faulty variant: every failure of a batch run answers 500
BatchStatusAlways500(e) == 500

\* the HTTP status of the batch handlers
BatchStatusFor(e) == IF IsConnectionError(e) THEN 503 ELSE 500

\* the tool calls a delegate response may report: the tool and whether
\* its raw output holds a "Source:" line
ToolCalls ==
    { [tool_name |-> "search_documents", has_source |-> TRUE],
      [tool_name |-> "search_documents", has_source |-> FALSE],
      [tool_name |-> "block_credit_card", has_source |-> FALSE],
      [tool_name |-> "enable_credit_card", has_source |-> FALSE] }

DelegateResponses ==
    [text : {<<"Your card is blocked.">>}, tool_calls : SeqsUpTo(ToolCalls, MaxToolCalls)]

RECURSIVE Sources(_)
\* views.py:584-597
Sources(tool_calls) ==
    IF tool_calls = <<>> THEN <<>>
    ELSE (IF Head(tool_calls).tool_name = "search_documents" /\ Head(tool_calls).has_source
          THEN <<[tool |-> "search_documents",
                  note |-> "Documents retrieved from vector store"]>>
          ELSE <<>>) \o Sources(Tail(tool_calls))

RECURSIVE ToolsUsedWithRepeats(_, _)
\* faulty variant: the name is appended without the "not in tools_used" test
ToolsUsedWithRepeats(tools_used, tool_calls) ==
    IF tool_calls = <<>> THEN tools_used
    ELSE ToolsUsedWithRepeats(Append(tools_used, Head(tool_calls).tool_name), Tail(tool_calls))

RECURSIVE ToolsUsedFrom(_, _)
\* views.py:601-606
ToolsUsedFrom(tools_used, tool_calls) ==
    IF tool_calls = <<>> THEN tools_used
    ELSE ToolsUsedFrom(
            IF \E i \in 1..Len(tools_used) : tools_used[i] = Head(tool_calls).tool_name
            THEN tools_used ELSE Append(tools_used, Head(tool_calls).tool_name),
            Tail(tool_calls))

\* response_data (views.py:609-615)
SuccessBody(response) ==
    [status |-> "success", response |-> response.text,
     sources |-> Sources(response.tool_calls),
     tools_used |-> ToolsUsedFrom(<<>>, response.tool_calls),
     timestamp |-> <<"datetime.utcnow().isoformat()">>]

----------------------------------------------------------------------------
(* Document upload: api/serializers.py DocumentUploadSerializer and        *)
(* api/views.py upload_document.  A file name is a sequence of tokens in   *)
(* which "." is a token of its own.                                        *)

MaxChunks == 2       \* most chunks the splitter makes of one document

SUPPORTED_EXTENSIONS == {<<".", "pdf">>, <<".", "txt">>, <<".", "docx">>}

MAX_FILE_SIZE == 10 * 1024 * 1024

\* the names an uploaded file may carry
FileNames ==
    { <<"report", ".", "pdf">>, <<"report", ".", "PDF">>, <<"notes", ".", "Txt">>,
      <<"cv", ".", "docx">>, <<"virus", ".", "exe">>, <<"report", ".", "pdf", ".", "exe">>,
      <<"archive", ".", "tar", ".", "txt">>, <<".", "pdf">>, <<"README">> }

\* the sizes, in bytes, it may have
FileSizes == {0, 1, MAX_FILE_SIZE, MAX_FILE_SIZE + 1}

UploadedFiles == [name : FileNames, size : FileSizes]

\* request.data of an upload: with or without the file field
UploadPayloads == UNION {[D -> UploadedFiles] : D \in SUBSET {"file"}}

\* os.path.splitext(file_name)[1]: the name from its last dot on, unless
\* only dots precede that dot
Splitext(file_name) ==
    LET dots == {i \in 1..Len(file_name) : file_name[i] = "."}
    IN  IF dots = {} THEN <<>>
        ELSE LET k == CHOOSE i \in dots : \A j \in dots : j <= i
             IN  IF \A j \in 1..(k - 1) : file_name[j] = "." THEN <<>>
                 ELSE SubSeq(file_name, k, Len(file_name))

\* str.lower(), token by token
Lower(s) ==
    [i \in 1..Len(s) |-> IF s[i] = "PDF" THEN "pdf" ELSE IF s[i] = "Txt" THEN "txt" ELSE s[i]]

\* faulty variant: the size of the file is not looked at
ValidateFileNoSizeLimit(value) ==
    IF Lower(Splitext(value.name)) \notin SUPPORTED_EXTENSIONS
    THEN <<"Unsupported file format '">> \o Lower(Splitext(value.name))
         \o <<"'. ", "Supported formats: .pdf, .txt, .docx">>
    ELSE <<>>

\* DocumentUploadSerializer.validate_file: the ValidationError raised, if any
ValidateFile(value) ==
    LET file_ext == Lower(Splitext(value.name))
    IN  IF file_ext \notin SUPPORTED_EXTENSIONS
        THEN <<"Unsupported file format '">> \o file_ext
             \o <<"'. ", "Supported formats: .pdf, .txt, .docx">>
        ELSE IF value.size > MAX_FILE_SIZE
        THEN <<"File size exceeds maximum allowed size of ", "10.0", " MB">>
        ELSE <<>>

\* serializer.errors of DocumentUploadSerializer: FileField(required=True)
\* refuses a missing and an empty file, then validate_file runs
UploadSerializerErrors(data) ==
    LET err == IF "file" \notin DOMAIN data THEN <<"No file was submitted.">>
               ELSE IF data["file"].size = 0 THEN <<"The submitted file is empty.">>
               ELSE ValidateFile(data["file"])
    IN  [k \in {f \in {"file"} : err # <<>>} |-> err]

\* the processing steps of upload_document, in the order they run
UploadSteps == <<"mkdtemp", "write", "load", "chunk", "storage", "index">>

StepIndex(step) == CHOOSE i \in 1..Len(UploadSteps) : UploadSteps[i] = step

\* what a failing step raises
UploadExceptions ==
    { Exc("ConnectionError", <<"Unable to create OpenSearch vector store">>),
      Exc("ConnectionRefusedError", <<"Connection refused">>),
      Exc("ValueError", <<"Unexpected error">>) }

NoFault == [step |-> "none"]

\* the failure of one upload: no step fails, or one step raises
UploadFaults ==
    {NoFault} \cup {[step |-> UploadSteps[i], exc |-> e] :
                       i \in 1..Len(UploadSteps), e \in UploadExceptions}

\* faulty variant: the handlers of the vector-store steps do not tell a
\* connection failure from the rest
UploadErrorForAnyException(step, e) ==
    IF step = "load"
    THEN JsonResponse(400, ErrorBody("DOCUMENT_PARSE_ERROR", <<"Failed to parse document">>, e.text))
    ELSE IF step = "chunk"
    THEN JsonResponse(500, ErrorBody("CHUNKING_ERROR", <<"Failed to chunk document">>, e.text))
    ELSE IF step = "storage"
    THEN JsonResponse(500, ErrorBody("STORAGE_ERROR", <<"Failed to initialize storage">>, e.text))
    ELSE IF step = "index"
    THEN JsonResponse(500, ErrorBody("INDEXING_ERROR", <<"Failed to index document">>, e.text))
    ELSE JsonResponse(500, ErrorBody("INTERNAL_ERROR", <<"An unexpected error occurred">>, e.text))

\* the response of the except clause that catches exception e raised by a
\* step: the step's own try (views.py:196, 236, 253-265, 292-304) or the
\* outer one (views.py:330)
UploadErrorFor(step, e) ==
    IF step = "load"
    THEN JsonResponse(400, ErrorBody("DOCUMENT_PARSE_ERROR", <<"Failed to parse document">>, e.text))
    ELSE IF step = "chunk"
    THEN JsonResponse(500, ErrorBody("CHUNKING_ERROR", <<"Failed to chunk document">>, e.text))
    ELSE IF step = "storage"
    THEN IF IsConnectionError(e)
         THEN JsonResponse(503, ErrorBody("SERVICE_UNAVAILABLE",
                                          <<"Unable to connect to vector store">>, e.text))
         ELSE JsonResponse(500, ErrorBody("STORAGE_ERROR", <<"Failed to initialize storage">>, e.text))
    ELSE IF step = "index"
    THEN IF IsConnectionError(e)
         THEN JsonResponse(503, ErrorBody("SERVICE_UNAVAILABLE",
                                          <<"Failed to store document in vector store">>, e.text))
         ELSE JsonResponse(500, ErrorBody("INDEXING_ERROR", <<"Failed to index document">>, e.text))
    ELSE JsonResponse(500, ErrorBody("INTERNAL_ERROR", <<"An unexpected error occurred">>, e.text))

\* if not documents (views.py:181-192)
DocumentLoadError ==
    JsonResponse(400, ErrorBody("DOCUMENT_LOAD_ERROR", <<"Failed to load document content">>,
                                <<"The file could not be parsed or is empty">>))

\* response_data (views.py:318-328)
UploadSuccess(filename, chunks) ==
    JsonResponse(200, [status |-> "success", document_id |-> <<"uuid4">>,
                       chunks_created |-> chunks, filename |-> filename,
                       message |-> <<"Document uploaded and indexed successfully">>])

\* finally: the temporary directory is removed when it was created
Cleanup(ran) ==
    IF \E i \in 1..Len(ran) : ran[i] = "write" THEN Append(ran, "rmtree") ELSE ran

\* upload_document(request): the response and the steps that ran.  fault
\* is the step that raises, documents the number of documents the reader
\* loads, chunks the number of nodes the splitter makes.
upload_document(data, fault, documents, chunks) ==
    LET errors == UploadSerializerErrors(data)
    IN  IF DOMAIN errors # {}
        THEN [resp |-> JsonResponse(400, ErrorBody("VALIDATION_ERROR",
                                                   <<"Invalid request data">>, errors)),
              steps |-> <<>>]
        ELSE
        LET raisesAt == IF fault = NoFault THEN Len(UploadSteps) + 1 ELSE StepIndex(fault.step)
            emptyAt  == IF documents = 0 THEN StepIndex("load") ELSE Len(UploadSteps) + 1
            stop     == IF raisesAt <= emptyAt THEN raisesAt ELSE emptyAt
            ran      == SubSeq(UploadSteps, 1, IF stop > Len(UploadSteps)
                                               THEN Len(UploadSteps) ELSE stop)
        IN  [resp  |-> IF raisesAt <= emptyAt /\ fault # NoFault
                       THEN UploadErrorFor(fault.step, fault.exc)
                       ELSE IF documents = 0 THEN DocumentLoadError
                       ELSE UploadSuccess(data["file"].name, chunks),
             steps |-> Cleanup(ran)]

----------------------------------------------------------------------------
(* OpenAI-compatible adapter: api/serializers.py OpenAIQuerySerializer and *)
(* api/views.py openai_chat_completions.  In a message content the         *)
(* literal "[phone:" is one token, every other character a token.          *)

MaxMessages   == 2   \* most messages a chat-completions request carries
MaxChatEvents == 2   \* most events the delegate emits while the adapter awaits it

\* the characters of the class [+\d\s-]
PhoneClass == {"+", "-", " ", "0", "1", "2", "3", "4", "5", "6", "7", "8", "9"}

RECURSIVE ClassRun(_, _)
\* the length of the longest run of class characters that starts at position i
ClassRun(s, i) ==
    IF i <= Len(s) /\ s[i] \in PhoneClass THEN 1 + ClassRun(s, i + 1) ELSE 0

\* where a match of \[phone:\s*([+\d\s-]+)\] that starts at position i
\* ends, 0 when there is none
MatchEnd(s, i) ==
    IF i <= Len(s) /\ s[i] = "[phone:"
    THEN LET n == ClassRun(s, i + 1)
         IN  IF n >= 1 /\ i + n + 1 <= Len(s) /\ s[i + n + 1] = "]" THEN i + n + 1 ELSE 0
    ELSE 0

\* group(1) of a match over the given run of class characters: \s* takes
\* the leading blanks, but leaves the group one character
Group1(run) == IF LStrip(run) = <<>> THEN <<run[Len(run)]>> ELSE LStrip(run)

\* re.search(pattern, content): the leftmost match
ReSearch(content) ==
    LET starts == {i \in 1..Len(content) : MatchEnd(content, i) > 0}
    IN  IF starts = {} THEN [matched |-> FALSE, group1 |-> <<>>]
        ELSE LET i == CHOOSE k \in starts : \A j \in starts : k <= j
             IN  [matched |-> TRUE,
                  group1 |-> Group1(SubSeq(content, i + 1, MatchEnd(content, i) - 1))]

RECURSIVE ReSubEmpty(_)
\* re.sub(pattern, '', content): every match removed
ReSubEmpty(content) ==
    IF content = <<>> THEN <<>>
    ELSE IF MatchEnd(content, 1) > 0
    THEN ReSubEmpty(SubSeq(content, MatchEnd(content, 1) + 1, Len(content)))
    ELSE <<Head(content)>> \o ReSubEmpty(Tail(content))

RECURSIVE Join(_, _)
\* sep.join(parts)
Join(sep, parts) ==
    IF parts = <<>> THEN <<>>
    ELSE IF Len(parts) = 1 THEN parts[1]
    ELSE parts[1] \o <<sep>> \o Join(sep, Tail(parts))

\* faulty variant: the phone tag is left in the user text
UserTurnTagKept(acc, content) ==
    LET phone_match == ReSearch(content)
    IN  IF phone_match.matched
        THEN [acc EXCEPT !.user_message = Strip(content),
                         !.phone_number = Strip(phone_match.group1)]
        ELSE [acc EXCEPT !.user_message = content]

\* the role == 'user' branch of the loop (views.py:686-693)
UserTurn(acc, content) ==
    LET phone_match == ReSearch(content)
    IN  IF phone_match.matched
        THEN [acc EXCEPT !.user_message = Strip(ReSubEmpty(content)),
                         !.phone_number = Strip(phone_match.group1)]
        ELSE [acc EXCEPT !.user_message = content]

RECURSIVE FoldMessages(_, _)
\* the for loop of _extract_query_and_context over the messages
FoldMessages(acc, messages) ==
    IF messages = <<>> THEN acc
    ELSE LET msg == Head(messages)
             next == IF msg.role = "system"
                     THEN [acc EXCEPT !.system_messages = Append(@, msg.content)]
                     ELSE IF msg.role = "user" THEN UserTurn(acc, msg.content)
                     ELSE IF msg.role = "assistant"
                     THEN [acc EXCEPT !.conversation_history =
                                          Append(@, <<"Assistant: ">> \o msg.content)]
                     ELSE acc
         IN  FoldMessages(next, Tail(messages))

\* _extract_query_and_context(messages): query_text and phone_number
extract_query_and_context(messages) ==
    LET acc == FoldMessages([system_messages |-> <<>>, conversation_history |-> <<>>,
                             user_message |-> <<>>, phone_number |-> <<>>], messages)
        query_parts ==
            (IF acc.system_messages # <<>>
             THEN << <<"System Instructions: ">> \o Join(" ", acc.system_messages) >>
             ELSE <<>>)
            \o (IF acc.conversation_history # <<>>
                THEN << <<"Conversation History:\n">> \o Join("\n", acc.conversation_history) >>
                ELSE <<>>)
            \o << <<"User: ">> \o acc.user_message >>
    IN  [query_text |-> Join("\n\n", query_parts), phone_number |-> acc.phone_number]

\* query_text as _execute_agent_sync and _execute_agent_stream pass it to
\* agent.run (views.py:818-819, 854-855)
ExecutePrompt(query_text, phone_number) ==
    IF phone_number # <<>>
    THEN query_text \o <<"\n\n[User phone number: ">> \o phone_number \o <<"]">>
    ELSE query_text

\* the messages a request may carry; a content is given untrimmed
ChatMessages ==
    { [role |-> "user", content |-> <<"H", "i", " ", "[phone:", " ", "+", "1", "]">>],
      [role |-> "user", content |-> <<"H", "i">>],
      [role |-> "user", content |-> <<"[phone:", "1", "-", "1", "]", " ", "H", "i", " ",
                                      "[phone:", " ", "+", "1", "]">>],
      [role |-> "user", content |-> <<"[phone:", " ", "]", " ", "H", "i">>],
      [role |-> "user", content |-> <<"+", "1", " ", "[phone:", "+", "1", "]", " ">>],
      [role |-> "user", content |-> <<"[phone:", " ", "x", "]">>],
      [role |-> "system", content |-> <<"B", "e", " ", "b", "r", "i", "e", "f">>],
      [role |-> "assistant", content |-> <<"O", "k">>],
      [role |-> "tool", content |-> <<" ">>] }

MessageLists == SeqsUpTo(ChatMessages, MaxMessages)

\* one valid message list, for the requests that vary the other fields
OneUserMessage == << [role |-> "user", content |-> <<"H", "i">>] >>

\* request.data of a chat-completions request; temperature is in tenths
ChatPayloads ==
    {[messages |-> m] : m \in MessageLists}
    \cup {[messages |-> m, stream |-> f] : m \in MessageLists, f \in {<<"true">>, <<"false">>}}
    \cup {[stream |-> <<"false">>]}
    \cup {[messages |-> OneUserMessage, stream |-> <<"maybe">>]}
    \cup {[messages |-> OneUserMessage, stream |-> f, model |-> <<"gpt-3.5-turbo">>] :
             f \in {<<"true">>, <<"false">>}}
    \cup {[messages |-> OneUserMessage, stream |-> <<"false">>, temperature |-> t] : t \in {7, 25}}
    \cup {[messages |-> OneUserMessage, stream |-> <<"false">>, max_tokens |-> n] : n \in {0, 2048}}

\* OpenAIMessageSerializer: a ChoiceField role and a non-blank content
MessageItemValid(msg) ==
    /\ msg.role \in {"system", "user", "assistant"}
    /\ Strip(msg.content) # <<>>

\* serializer.errors of OpenAIQuerySerializer: field -> message
OpenAISerializerErrors(data) ==
    LET messagesErr ==
            IF "messages" \notin DOMAIN data THEN <<"This field is required.">>
            ELSE IF \E i \in 1..Len(data.messages) : ~MessageItemValid(data.messages[i])
            THEN <<"Invalid message.">>
            ELSE IF data.messages = <<>> THEN <<"At least one message is required">>
            ELSE <<>>
        temperatureErr ==
            IF "temperature" \in DOMAIN data /\ (data.temperature < 0 \/ data.temperature > 20)
            THEN <<"Ensure this value is less than or equal to 2.0.">> ELSE <<>>
        maxTokensErr ==
            IF "max_tokens" \in DOMAIN data /\ (data.max_tokens < 1 \/ data.max_tokens > 4096)
            THEN <<"Ensure this value is greater than or equal to 1.">> ELSE <<>>
        streamErr ==
            IF "stream" \in DOMAIN data /\ ~ValidBoolean(data.stream)
            THEN <<"Must be a valid boolean.">> ELSE <<>>
        err(k) == IF k = "messages" THEN messagesErr
                  ELSE IF k = "temperature" THEN temperatureErr
                  ELSE IF k = "max_tokens" THEN maxTokensErr
                  ELSE streamErr
    IN  [k \in {f \in {"messages", "temperature", "max_tokens", "stream"} : err(f) # <<>>}
            |-> err(k)]

\* validated_data['messages']: each content trimmed by its CharField
ValidatedMessages(data) ==
    [i \in 1..Len(data.messages) |->
        [role |-> data.messages[i].role, content |-> Strip(data.messages[i].content)]]

\* validated_data.get('model', ...): the serializer's default when absent
ValidatedModel(data) ==
    IF "model" \in DOMAIN data THEN data.model ELSE <<"amazon.nova-lite-v1:0">>

\* validated_data.get('stream', False): the serializer's default is True
ValidatedChatStream(data) ==
    IF "stream" \in DOMAIN data THEN data.stream = <<"true">> ELSE TRUE

\* if x: for a text or a dict
Truthy(x) == DOMAIN x # {}

\* _format_openai_error: the keys param, code and details are set only
\* when given ("" and an empty text stand for None)
format_openai_error(message, error_type, status_code, param, code, details) ==
    LET keys == {"message", "type"}
                \cup (IF Truthy(param) THEN {"param"} ELSE {})
                \cup (IF code # "" THEN {"code"} ELSE {})
                \cup (IF Truthy(details) THEN {"details"} ELSE {})
    IN  [status |-> status_code, content_type |-> "application/json",
         body |-> [error |-> [k \in keys |->
                                 IF k = "message" THEN message
                                 ELSE IF k = "type" THEN error_type
                                 ELSE IF k = "param" THEN param
                                 ELSE IF k = "code" THEN code
                                 ELSE details]]]

\* the number of characters of a token
TokenLen(tok) ==
    IF tok = "System Instructions: " THEN 21
    ELSE IF tok = "Conversation History:\n" THEN 22
    ELSE IF tok = "Assistant: " THEN 11
    ELSE IF tok = "User: " THEN 6
    ELSE IF tok = "[phone:" THEN 7
    ELSE IF tok = "\n\n" THEN 2
    ELSE IF tok = "Based" THEN 5
    ELSE IF tok = " on" THEN 3
    ELSE 1

RECURSIVE StrLen(_)
\* len(text)
StrLen(text) == IF text = <<>> THEN 0 ELSE TokenLen(Head(text)) + StrLen(Tail(text))

\* the completion ids uuid4 may give, and the second time.time() reads
CompletionIds == {"chatcmpl-0a", "chatcmpl-0b"}
CreatedTimes  == {1700000000}

\* _format_openai_response(content, model, prompt_text)
format_openai_response(content, model, prompt_text, completion_id, created) ==
    [id |-> completion_id, object |-> "chat.completion", created |-> created, model |-> model,
     choices |-> << [index |-> 0, message |-> [role |-> "assistant", content |-> content],
                     finish_reason |-> "stop"] >>,
     usage |-> [prompt_tokens |-> StrLen(prompt_text) \div 4,
                completion_tokens |-> StrLen(content) \div 4,
                total_tokens |-> (StrLen(prompt_text) \div 4) + (StrLen(content) \div 4)]]

\* one line of an OpenAI event stream: "data: " followed by a JSON
\* document, or by a literal
SseJson(document)  == [type |-> "json", data |-> document]
SseLiteral(text)   == [type |-> "literal", data |-> text]

\* chunk_data and final_chunk (views.py:1009-1021, 1026-1038); a delta is
\* {"content": token} or {}
ChatChunk(stream_id, created_time, model, delta, finish_reason) ==
    [id |-> stream_id, object |-> "chat.completion.chunk", created |-> created_time,
     model |-> model,
     choices |-> << [index |-> 0, delta |-> delta, finish_reason |-> finish_reason] >>]

ContentDelta(token) == [content |-> token]
EmptyDelta == [k \in {} |-> <<>>]

\* what the delegate may raise while the adapter awaits it
ChatDelegateExceptions ==
    DelegateExceptions \cup {Exc("RuntimeError", <<"Event loop is closed">>)}

\* if agent is None: raise RuntimeError (views.py:814-815, 850-851)
AgentNotInitialized == Exc("RuntimeError", <<"Agent is not initialized">>)

RECURSIVE ResponseText(_)
\* str(response): the text the delegate streamed while it ran, as one string
ResponseText(trace) ==
    IF trace = <<>> THEN <<>>
    ELSE (IF Head(trace).cls = "AgentStream" THEN <<Head(trace).delta>> ELSE <<>>)
         \o ResponseText(Tail(trace))

\* the tokens _execute_agent_stream yields for a run that returns: the
\* whole response as one token (the loop over stream_events is commented
\* out, views.py:861-868)
ExecuteAgentStreamTokens(trace) == << ResponseText(trace) >>

\* the lines stream_events yields for the given tokens on normal
\* completion: one chunk per token, the final chunk, the sentinel
StreamLines(tokens, stream_id, created_time, model) ==
    [i \in 1..Len(tokens) |->
        SseJson(ChatChunk(stream_id, created_time, model, ContentDelta(tokens[i]), "null"))]
    \o << SseJson(ChatChunk(stream_id, created_time, model, EmptyDelta, "stop")),
          SseLiteral("[DONE]") >>

\* the error_response of the except clauses of stream_events
\* (views.py:1044-1065), followed by the sentinel
StreamErrorLines(e) ==
    IF e.cls = "RuntimeError"
    THEN << SseJson([error |-> [message |-> <<"Agent service is not available">>,
                                type |-> "service_unavailable_error",
                                code |-> "agent_unavailable"]]),
            SseLiteral("[DONE]") >>
    ELSE << SseJson([error |-> [message |-> e.text, type |-> "internal_error"]]),
            SseLiteral("[DONE]") >>

\* the except clauses of _handle_non_streaming_chat_completion around
\* _execute_agent_sync (views.py:1094-1121)
ChatExecutionError(e) ==
    IF e.cls = "RuntimeError"
    THEN format_openai_error(<<"Agent service is not available">>, "service_unavailable_error",
                             503, <<>>, "agent_unavailable", e.text)
    ELSE IF IsConnectionError(e)
    THEN format_openai_error(<<"Unable to connect to required services">>,
                             "service_unavailable_error", 503, <<>>,
                             "service_connection_error", e.text)
    ELSE format_openai_error(<<"Agent execution failed: ">> \o e.text, "server_error",
                             500, <<>>, "agent_execution_error", <<>>)

NoRequest == [endpoint |-> "none"]
NoResponse == [status |-> 0, content_type |-> "", body |-> <<>>]

\* the account store while only the protocol layer is observed
ToolsIdle ==
    /\ clock = 0
    /\ store = [i \in RowIds |-> CreateRow(SeedRows[i], "active", 0)]
    /\ last = NoCall
    /\ NoWorkers

InitApi ==
    /\ ToolsIdle
    /\ \E llmv \in {"BedrockConverse", "None"}, constructorFails \in BOOLEAN :
          /\ llm = llmv
          /\ agent = AgentSingleton(llmv, constructorFails)
    /\ pc = "idle"
    /\ req = NoRequest
    /\ resp = NoResponse
    /\ sse = <<>>
    /\ runs = <<>>
    /\ produced = <<>>
    /\ steps = <<>>

HealthCheck ==
    /\ pc = "idle"
    /\ \E cursorWorks \in BOOLEAN, vectorStore \in VectorStoreOutcomes :
          /\ req' = [endpoint |-> "health", cursorWorks |-> cursorWorks,
                     vectorStore |-> vectorStore]
          /\ resp' = health_check(cursorWorks, vectorStore, llm)
    /\ pc' = "responded"
    /\ UNCHANGED <<llm, agent, sse, runs, produced>>
    /\ UNCHANGED <<toolVars, uploadVars, raceVars, retryVars>>

\* agent_query(request) up to the point where it returns its response
\* object: validation, the agent-unavailable check, the prompt, dispatch.
\* The batch handler calls agent.run() before it returns; the streaming
\* handler returns a response whose body is produced on iteration.
AgentQuery ==
    /\ pc = "idle"
    /\ \E data \in Payloads :
        LET errors == SerializerErrors(data)
            query_text == QueryText(ValidatedMessage(data), ValidatedPhone(data))
        IN
        /\ req' = [endpoint |-> "agent_query", data |-> data]
        /\ IF DOMAIN errors # {}
           THEN /\ resp' = JsonResponse(400,
                              ErrorBody("VALIDATION_ERROR", <<"Invalid request data">>, errors))
                /\ pc' = "responded"
                /\ UNCHANGED <<sse, runs>>
           ELSE IF AgentUnavailable(agent)
           THEN IF ValidatedStream(data)
                THEN /\ resp' = StreamingResponse(503)
                     /\ sse' = <<ErrorEvent(AgentUnavailableBody)>>
                     /\ pc' = "closed"
                     /\ UNCHANGED runs
                ELSE /\ resp' = JsonResponse(503, AgentUnavailableBody)
                     /\ pc' = "responded"
                     /\ UNCHANGED <<sse, runs>>
           ELSE IF ValidatedStream(data)
                THEN /\ resp' = StreamingResponse(200)
                     /\ pc' = "opened"
                     /\ UNCHANGED <<sse, runs>>
                ELSE /\ resp' = NoResponse
                     /\ runs' = Append(runs, query_text)
                     /\ pc' = "running"
                     /\ UNCHANGED sse
    /\ UNCHANGED <<llm, agent, produced>>
    /\ UNCHANGED <<toolVars, uploadVars, raceVars, retryVars>>

\* first iteration of async_event_stream: handler = agent.run(user_msg=query_text)
StreamOpen ==
    /\ pc = "opened"
    /\ runs' = Append(runs, QueryText(ValidatedMessage(req.data), ValidatedPhone(req.data)))
    /\ pc' = "streaming"
    /\ UNCHANGED <<llm, agent, req, resp, sse, produced>>
    /\ UNCHANGED <<toolVars, uploadVars, raceVars, retryVars>>

\* handler.stream_events() produces one more event
StreamYield ==
    /\ pc = "streaming"
    /\ Len(produced) < MaxEvents
    /\ \E event \in DelegateEvents :
          /\ produced' = Append(produced, event)
          /\ sse' = sse \o EmitFor(event)
    /\ UNCHANGED <<llm, agent, pc, req, resp, runs>>
    /\ UNCHANGED <<toolVars, uploadVars, raceVars, retryVars>>

\* the event stream is exhausted: the completion event, then the generator ends
StreamEnd ==
    /\ pc = "streaming"
    /\ sse' = Append(sse, DoneEvent)
    /\ produced' = Append(produced, Exhausted)
    /\ pc' = "closed"
    /\ UNCHANGED <<llm, agent, req, resp, runs>>
    /\ UNCHANGED <<toolVars, uploadVars, raceVars, retryVars>>

\* the delegate raises while the stream is consumed
StreamRaise ==
    /\ pc = "streaming"
    /\ \E e \in DelegateExceptions :
          /\ sse' = Append(sse, ErrorEvent(StreamErrorContent(e)))
          /\ produced' = Append(produced, Raised(e))
    /\ pc' = "closed"
    /\ UNCHANGED <<llm, agent, req, resp, runs>>
    /\ UNCHANGED <<toolVars, uploadVars, raceVars, retryVars>>

\* await handler returns the delegate's response
BatchReturn ==
    /\ pc = "running"
    /\ \E response \in DelegateResponses :
          /\ resp' = JsonResponse(200, SuccessBody(response))
          /\ produced' = <<ReturnedWith(response)>>
    /\ pc' = "responded"
    /\ UNCHANGED <<llm, agent, req, sse, runs>>
    /\ UNCHANGED <<toolVars, uploadVars, raceVars, retryVars>>

\* await handler raises
BatchRaise ==
    /\ pc = "running"
    /\ \E e \in DelegateExceptions :
          /\ produced' = <<Raised(e)>>
          /\ resp' = JsonResponse(BatchStatusFor(e),
                        ErrorBody(ErrorCodeFor(e), ErrorMessageFor(e), e.text))
    /\ pc' = "responded"
    /\ UNCHANGED <<llm, agent, req, sse, runs>>
    /\ UNCHANGED <<toolVars, uploadVars, raceVars, retryVars>>

\* upload_document(request), from validation to the response and the
\* removal of the temporary directory
UploadDocument ==
    /\ pc = "idle"
    /\ \E data \in UploadPayloads, fault \in UploadFaults,
          documents \in 0..1, chunks \in 1..MaxChunks :
          LET r == upload_document(data, fault, documents, chunks)
          IN  /\ req' = [endpoint |-> "upload", data |-> data, fault |-> fault,
                         documents |-> documents]
              /\ resp' = r.resp
              /\ steps' = r.steps
    /\ pc' = "responded"
    /\ UNCHANGED <<llm, agent, sse, runs, produced>>
    /\ UNCHANGED <<toolVars, raceVars, retryVars>>

\* the worker takes its next request
NextRequest ==
    /\ pc \in {"responded", "closed"}
    /\ pc' = "idle"
    /\ req' = NoRequest
    /\ resp' = NoResponse
    /\ sse' = <<>>
    /\ runs' = <<>>
    /\ produced' = <<>>
    /\ steps' = <<>>
    /\ UNCHANGED <<llm, agent>>
    /\ UNCHANGED <<toolVars, raceVars, retryVars>>

NextApi ==
    \/ HealthCheck
    \/ AgentQuery
    \/ StreamOpen
    \/ StreamYield
    \/ StreamEnd
    \/ StreamRaise
    \/ BatchReturn
    \/ BatchRaise
    \/ UploadDocument
    \/ NextRequest

SpecApi == InitApi /\ [][NextApi]_vars

\* The same worker when the server iterates the body of a streaming
\* response it was given, and the delegate run of every request comes to
\* an end: its event stream is exhausted or raises, its handler returns or
\* raises.
SpecApiLive ==
    /\ SpecApi
    /\ WF_vars(StreamOpen)
    /\ WF_vars(StreamEnd \/ StreamRaise)
    /\ WF_vars(BatchReturn \/ BatchRaise)

----------------------------------------------------------------------------
(* The chat-completions endpoint as steps of the worker *)

\* openai_chat_completions(request) up to the point where it returns a
\* streaming response or calls agent.run()
ChatCompletions ==
    /\ pc = "idle"
    /\ \E data \in ChatPayloads :
        LET errors == OpenAISerializerErrors(data)
        IN
        /\ req' = [endpoint |-> "chat_completions", data |-> data]
        /\ IF DOMAIN errors # {}
           THEN /\ resp' = format_openai_error(<<"Invalid request data">>, "invalid_request_error",
                                               400, <<>>, "validation_error", errors)
                /\ pc' = "responded"
                /\ UNCHANGED runs
           ELSE
           LET context == extract_query_and_context(ValidatedMessages(data))
           IN  IF ValidatedChatStream(data)
               THEN /\ resp' = StreamingResponse(200)
                    /\ pc' = "chat_opened"
                    /\ UNCHANGED runs
               ELSE IF AgentUnavailable(agent)
               THEN /\ resp' = ChatExecutionError(AgentNotInitialized)
                    /\ pc' = "responded"
                    /\ UNCHANGED runs
               ELSE /\ resp' = NoResponse
                    /\ runs' = Append(runs, ExecutePrompt(context.query_text,
                                                          context.phone_number))
                    /\ pc' = "chat_running"
    /\ UNCHANGED <<llm, agent, sse, produced>>
    /\ UNCHANGED <<toolVars, uploadVars, raceVars, retryVars>>

\* first iteration of stream_events: _execute_agent_stream raises when the
\* agent is None, else calls agent.run() and awaits the handler
ChatStreamOpen ==
    /\ pc = "chat_opened"
    /\ LET context == extract_query_and_context(ValidatedMessages(req.data))
       IN  IF AgentUnavailable(agent)
           THEN /\ sse' = StreamErrorLines(AgentNotInitialized)
                /\ pc' = "closed"
                /\ UNCHANGED runs
           ELSE /\ runs' = Append(runs, ExecutePrompt(context.query_text, context.phone_number))
                /\ pc' = "chat_awaiting"
                /\ UNCHANGED sse
    /\ UNCHANGED <<llm, agent, req, resp, produced>>
    /\ UNCHANGED <<toolVars, uploadVars, raceVars, retryVars>>

\* the delegate emits an event while the adapter awaits the handler; the
\* adapter does not read the event stream
ChatDelegateEvent ==
    /\ pc \in {"chat_running", "chat_awaiting"}
    /\ Len(produced) < MaxChatEvents
    /\ \E event \in DelegateEvents : produced' = Append(produced, event)
    /\ UNCHANGED <<llm, agent, pc, req, resp, sse, runs>>
    /\ UNCHANGED <<toolVars, uploadVars, raceVars, retryVars>>

\* await handler returns in streaming mode: the token chunks, the final
\* chunk and the sentinel
ChatStreamReturn ==
    /\ pc = "chat_awaiting"
    /\ \E stream_id \in CompletionIds, created_time \in CreatedTimes :
          sse' = StreamLines(ExecuteAgentStreamTokens(produced), stream_id, created_time,
                             ValidatedModel(req.data))
    /\ produced' = Append(produced, Returned)
    /\ pc' = "closed"
    /\ UNCHANGED <<llm, agent, req, resp, runs>>
    /\ UNCHANGED <<toolVars, uploadVars, raceVars, retryVars>>

\* await handler raises in streaming mode
ChatStreamRaise ==
    /\ pc = "chat_awaiting"
    /\ \E e \in ChatDelegateExceptions :
          /\ sse' = StreamErrorLines(e)
          /\ produced' = Append(produced, Raised(e))
    /\ pc' = "closed"
    /\ UNCHANGED <<llm, agent, req, resp, runs>>
    /\ UNCHANGED <<toolVars, uploadVars, raceVars, retryVars>>

\* _execute_agent_sync returns: the completion, or the error of the except
\* clause around _format_openai_response when formatting raises
ChatReturn ==
    /\ pc = "chat_running"
    /\ \E completion_id \in CompletionIds, created \in CreatedTimes, formatRaises \in BOOLEAN :
          resp' = IF formatRaises
                  THEN format_openai_error(<<"Failed to format response: ", "format failure">>,
                                           "server_error", 500, <<>>,
                                           "response_formatting_error", <<>>)
                  ELSE JsonResponse(200,
                          format_openai_response(
                              ResponseText(produced), ValidatedModel(req.data),
                              extract_query_and_context(ValidatedMessages(req.data)).query_text,
                              completion_id, created))
    /\ produced' = Append(produced, Returned)
    /\ pc' = "responded"
    /\ UNCHANGED <<llm, agent, req, sse, runs>>
    /\ UNCHANGED <<toolVars, uploadVars, raceVars, retryVars>>

\* _execute_agent_sync raises
ChatRaise ==
    /\ pc = "chat_running"
    /\ \E e \in ChatDelegateExceptions :
          /\ resp' = ChatExecutionError(e)
          /\ produced' = Append(produced, Raised(e))
    /\ pc' = "responded"
    /\ UNCHANGED <<llm, agent, req, sse, runs>>
    /\ UNCHANGED <<toolVars, uploadVars, raceVars, retryVars>>

NextOpenAI ==
    \/ ChatCompletions
    \/ ChatStreamOpen
    \/ ChatDelegateEvent
    \/ ChatStreamReturn
    \/ ChatStreamRaise
    \/ ChatReturn
    \/ ChatRaise
    \/ NextRequest

SpecOpenAI == InitApi /\ [][NextOpenAI]_vars

----------------------------------------------------------------------------
(* Properties of the tool functions, checked under SpecTools *)

IsCardCall == last.op \in {"block_credit_card", "enable_credit_card"}

\* the call was made with a string, not None
StringArg == last.arg # NoneArg

\* the phone number a card call looks up, stated independently of the
\* tool: the argument itself when it starts with '+', else '+' before it
LookedUp(p) == IF p # <<>> /\ p[1] = "+" THEN p ELSE <<"+">> \o p

\* the rows of the table before the call that the call is made for
Addressed == {i \in DOMAIN last.pre : last.pre[i].phone_number = LookedUp(last.arg)}

\* the message names the card only by its last four characters, and names the user
NamesCardAndUser(msg, row) ==
    /\ Contains(msg, <<"Card ending in: ">> \o Suffix(row.credit_card_number, 4)
                     \o <<"\nUsername: ">> \o row.username)

\* C1: block_credit_card called for an existing account whose status is
\* active (the store answering normally) sets the stored status to
\* blocked, strictly increases the stored updatedAt, and returns a message
\* containing "Successfully blocked credit card", the phone number, the
\* last 4 characters of the card number, the username and the ISO-8601
\* form of the updatedAt that was persisted.
C1_BlockActiveAccount ==
    (last.op = "block_credit_card" /\ StringArg /\ last.fault = "none") =>
        \A i \in Addressed :
            last.pre[i].card_status = "active" =>
                /\ store[i].card_status = "blocked"
                /\ store[i].updated_at > last.pre[i].updated_at
                /\ last.outcome.kind = "return"
                /\ Contains(last.outcome.value, <<"Successfully blocked credit card">>)
                /\ Contains(last.outcome.value, last.arg)
                /\ Contains(last.outcome.value, store[i].phone_number)
                /\ NamesCardAndUser(last.outcome.value, store[i])
                /\ Contains(last.outcome.value, Isoformat(store[i].updated_at))

C1_Witness ==
    /\ last.op = "block_credit_card" /\ StringArg /\ last.fault = "none"
    /\ \E i \in Addressed :
          /\ last.pre[i].card_status = "active"
          /\ last.pre[i].updated_at > 0
          /\ store[i].card_status = "blocked"
          /\ ~StartsWith(last.arg, <<"+">>)

\* C2: block_credit_card on an already-blocked account and
\* enable_credit_card on an already-active account write nothing (the
\* table, so the row's status and updatedAt, is as before the call) and
\* return an "already blocked" / "already active" message containing the
\* phone number, the last 4 card characters and the username.
C2_IdempotentNoOp ==
    (IsCardCall /\ StringArg /\ last.fault # "get") =>
        \A i \in Addressed :
            LET requested == IF last.op = "block_credit_card" THEN "blocked" ELSE "active"
            IN  last.pre[i].card_status = requested =>
                    /\ store = last.pre
                    /\ last.outcome.kind = "return"
                    /\ Contains(last.outcome.value,
                                IF requested = "blocked" THEN <<"already blocked">>
                                ELSE <<"already active">>)
                    /\ Contains(last.outcome.value, last.arg)
                    /\ Contains(last.outcome.value, store[i].phone_number)
                    /\ NamesCardAndUser(last.outcome.value, store[i])

C2_Witness ==
    /\ last.op = "enable_credit_card" /\ StringArg /\ last.fault = "none"
    /\ \E i \in Addressed :
          /\ last.pre[i].card_status = "active"
          /\ last.pre[i].updated_at > 0
          /\ Contains(last.outcome.value, <<"already active">>)

\* the "No cardholder found" answer that quotes phone number p, with the
\* table untouched
NotFoundAnswer(p) ==
    /\ last.outcome.kind = "return"
    /\ Contains(last.outcome.value, <<"No cardholder found">>)
    /\ Contains(last.outcome.value, p)
    /\ store = last.pre

\* C3 as stated: for every phone number string that is not present in the
\* account store, block and enable return a "No cardholder found" message
\* containing the queried phone number, and the store is unchanged.
C3_AsStated ==
    (IsCardCall /\ StringArg /\ last.fault = "none"
       /\ \A i \in DOMAIN last.pre : last.pre[i].phone_number # last.arg)
    => NotFoundAnswer(last.arg)

\* C3 (amended): for every phone number string whose normalized form (the
\* string itself when it starts with '+', otherwise '+' followed by the
\* string) is not present in the account store, block and enable return a
\* "No cardholder found" message containing the normalized phone number,
\* and with it the queried one, and the store is unchanged.
C3_NormalizedNotFound ==
    (IsCardCall /\ StringArg /\ last.fault # "get" /\ Addressed = {})
    => (NotFoundAnswer(LookedUp(last.arg)) /\ NotFoundAnswer(last.arg))

C3_Witness ==
    /\ last.op = "enable_credit_card" /\ StringArg /\ last.fault = "none"
    /\ Addressed = {}
    /\ last.arg # <<>> /\ ~StartsWith(last.arg, <<"+">>)
    /\ Contains(last.outcome.value, <<"No cardholder found">>)

\* the call met a failure no handler names: a None argument, the store
\* failing on the lookup or on the save, a retrieval step failing, a node
\* without a score
UnexpectedFailure ==
    \/ /\ IsCardCall
       /\ \/ ~StringArg
          \/ last.fault = "get"
          \/ /\ last.fault = "save"
             /\ \E i \in Addressed :
                   last.pre[i].card_status #
                       (IF last.op = "block_credit_card" THEN "blocked" ELSE "active")
    \/ /\ last.op = "search_documents"
       /\ \/ last.fault # "none"
          \/ /\ last.response.has_source_nodes
             /\ \E k \in 1..Len(last.response.source_nodes) :
                   last.response.source_nodes[k].score = <<>>

ErrorPrefix ==
    IF last.op = "search_documents" THEN "Error searching documents"
    ELSE IF last.op = "block_credit_card" THEN "Error blocking credit card"
    ELSE "Error enabling credit card"

\* C4: the three tool functions never raise: for every input and every
\* failure of the account store or the retrieval path the call returns a
\* text, and an unexpected failure is returned as "Error searching
\* documents: ...", "Error blocking credit card: ..." or "Error enabling
\* credit card: ...".
C4_ToolsNeverRaise ==
    last.op # "none" =>
        /\ last.outcome.kind = "return"
        /\ UnexpectedFailure =>
              /\ StartsWith(last.outcome.value, <<ErrorPrefix, ": ">>)
              /\ Len(last.outcome.value) > 2

C4_Witness ==
    /\ last.op = "enable_credit_card" /\ last.fault = "save" /\ UnexpectedFailure
    /\ last.outcome.kind = "return"
    /\ store = last.pre


----------------------------------------------------------------------------
(* Properties of the protocol layer, checked under SpecApi *)

HealthAnswered == pc = "responded" /\ req.endpoint = "health"

\* the checks of the probe that fail in this request
FailedChecks ==
    {k \in {"postgresql", "opensearch", "aws_bedrock"} :
        \/ k = "postgresql" /\ ~req.cursorWorks
        \/ k = "opensearch" /\ req.vectorStore # "client"
        \/ k = "aws_bedrock" /\ llm = "None"}

\* C5: health_check answers unhealthy with HTTP 503 if and only if at
\* least one of the three checks (postgresql, opensearch, aws_bedrock)
\* fails, otherwise healthy with HTTP 200; all three checks run and each
\* service's own status is in the response whatever the other checks did.
C5_HealthAggregation ==
    HealthAnswered =>
        /\ (resp.status = 503 /\ resp.body.status = "unhealthy") <=> (FailedChecks # {})
        /\ (resp.status = 200 /\ resp.body.status = "healthy") <=> (FailedChecks = {})
        /\ DOMAIN resp.body.services = {"postgresql", "opensearch", "aws_bedrock"}
        /\ \A k \in DOMAIN resp.body.services :
              resp.body.services[k].status =
                  (IF k \in FailedChecks THEN "unhealthy" ELSE "healthy")

C5_Witness ==
    /\ HealthAnswered
    /\ FailedChecks = {"postgresql"}
    /\ resp.status = 503
    /\ resp.body.services["aws_bedrock"].status = "healthy"

QueryRequest == pc # "idle" /\ req.endpoint = "agent_query"

\* the payload has no message, or an empty one
MessageMissingOrEmpty ==
    "message" \notin DOMAIN req.data \/ req.data["message"] = <<>>

\* the payload passes validation, stated on the payload: a message with a
\* character other than blank space, and a stream flag that is a boolean
\* when given
ValidPayload ==
    /\ "message" \in DOMAIN req.data
    /\ \E k \in 1..Len(req.data["message"]) : req.data["message"][k] # " "
    /\ "stream" \in DOMAIN req.data => req.data["stream"] \in {<<"true">>, <<"false">>}

\* the request asks for a streamed answer (the default)
StreamMode == "stream" \notin DOMAIN req.data \/ req.data["stream"] = <<"true">>

\* C6: an agent-query request whose message is missing or empty is
\* rejected with HTTP 400 and error.code VALIDATION_ERROR with a
\* details.message entry, whether or not the agent initialized, and the
\* delegate is never invoked for it.
C6_InvalidMessageRejected ==
    (QueryRequest /\ MessageMissingOrEmpty) =>
        /\ pc = "responded"
        /\ resp.status = 400
        /\ resp.content_type = "application/json"
        /\ resp.body.error.code = "VALIDATION_ERROR"
        /\ "message" \in DOMAIN resp.body.error.details
        /\ runs = <<>>
        /\ sse = <<>>

C6_Witness ==
    /\ QueryRequest /\ agent = "None"
    /\ "message" \in DOMAIN req.data /\ req.data["message"] = <<>>
    /\ resp.status = 400

\* C7: when the agent failed to initialize, every valid agent-query
\* request is answered 503 SERVICE_UNAVAILABLE without the delegate being
\* run: in batch mode as one JSON error body, in streaming mode as a
\* text/event-stream body of exactly one error event, with no token and
\* no done event.
C7_AgentUnavailable ==
    (QueryRequest /\ agent = "None" /\ ValidPayload) =>
        /\ resp.status = 503
        /\ runs = <<>>
        /\ produced = <<>>
        /\ IF StreamMode
           THEN /\ pc = "closed"
                /\ resp.content_type = "text/event-stream"
                /\ Len(sse) = 1
                /\ sse[1].type = "error"
                /\ sse[1].content.error.code = "SERVICE_UNAVAILABLE"
           ELSE /\ pc = "responded"
                /\ resp.content_type = "application/json"
                /\ resp.body.error.code = "SERVICE_UNAVAILABLE"
                /\ sse = <<>>

C7_Witness ==
    /\ QueryRequest /\ agent = "None" /\ llm # "None" /\ ValidPayload
    /\ "stream" \notin DOMAIN req.data
    /\ Len(sse) = 1

\* a streamed delegate run: the request is valid, the agent is there and
\* the answer is streamed
StreamedRun == QueryRequest /\ agent # "None" /\ ValidPayload /\ StreamMode

RECURSIVE DeltasOf(_)
\* the deltas of the AgentStream events the delegate produced, in order
DeltasOf(trace) ==
    IF trace = <<>> THEN <<>>
    ELSE (IF Head(trace).cls = "AgentStream" THEN <<Head(trace).delta>> ELSE <<>>)
         \o DeltasOf(Tail(trace))

\* how the delegate run ended, when it has
Ended(kind) == produced # <<>> /\ produced[Len(produced)].cls = kind

\* the positions of the body's events of the given types
Positions(types) == {i \in 1..Len(sse) : sse[i].type \in types}

\* C8: in streaming mode, whatever events the delegate yields, the body
\* holds exactly one token event per delta, in the order the delegate
\* produced them, followed on normal completion by exactly one done event
\* as the last event; delegate events that are not delta events produce
\* no output.
C8_TokensThenDone ==
    StreamedRun =>
        LET deltas == DeltasOf(produced)
        IN  /\ Cardinality(Positions({"token"})) = Len(deltas)
            /\ \A i \in 1..Len(deltas) : sse[i].type = "token" /\ sse[i].content = deltas[i]
            /\ Ended("exhausted") =>
                  /\ pc = "closed"
                  /\ Len(sse) = Len(deltas) + 1
                  /\ sse[Len(sse)].type = "done"
            /\ ~Ended("exhausted") => Positions({"done"}) = {}

C8_Witness ==
    /\ StreamedRun /\ Ended("exhausted")
    /\ Len(produced) = MaxEvents + 1
    /\ produced[1].cls = "AgentStream" /\ produced[2].cls # "AgentStream"
    /\ produced[MaxEvents].cls = "AgentStream" /\ produced[MaxEvents].delta # produced[1].delta
    /\ Len(sse) = MaxEvents

\* C9: a streaming agent-query whose delegate fails after the stream has
\* started keeps HTTP status 200 and ends with exactly one error event
\* (code SERVICE_UNAVAILABLE for a connectivity failure,
\* AGENT_EXECUTION_ERROR otherwise) as its last event; every stream ends
\* with exactly one terminal event, done or error and never both, and no
\* token event follows the terminal event.
C9_OneTerminalEvent ==
    (QueryRequest /\ ValidPayload /\ StreamMode) =>
        /\ pc = "closed" => /\ sse # <<>>
                            /\ Positions({"done", "error"}) = {Len(sse)}
        /\ pc # "closed" => Positions({"done", "error"}) = {}
        /\ Ended("raised") =>
              /\ pc = "closed"
              /\ resp.status = 200
              /\ resp.content_type = "text/event-stream"
              /\ sse[Len(sse)].type = "error"
              /\ sse[Len(sse)].content.code =
                    (IF produced[Len(produced)].exc.cls \in ConnectionErrorClasses
                     THEN "SERVICE_UNAVAILABLE" ELSE "AGENT_EXECUTION_ERROR")

C9_Witness ==
    /\ StreamedRun /\ Ended("raised")
    /\ produced[Len(produced)].exc.cls = "ConnectionRefusedError"
    /\ Positions({"token"}) # {}
    /\ resp.status = 200

\* C10: in batch mode a connectivity failure raised during the delegate
\* run answers HTTP 503 with code SERVICE_UNAVAILABLE, every other
\* exception answers HTTP 500 with code AGENT_EXECUTION_ERROR and the
\* exception text in details; no exception escapes the handler.
C10_BatchErrorMapping ==
    (QueryRequest /\ agent # "None" /\ ValidPayload /\ ~StreamMode) =>
        /\ pc \in {"running", "responded"}
        /\ pc = "responded" => resp.content_type = "application/json"
        /\ Ended("returned") => resp.status = 200
        /\ Ended("raised") =>
              LET e == produced[Len(produced)].exc
              IN  /\ pc = "responded"
                  /\ resp.body.error.details = e.text
                  /\ IF e.cls \in ConnectionErrorClasses
                     THEN resp.status = 503 /\ resp.body.error.code = "SERVICE_UNAVAILABLE"
                     ELSE resp.status = 500 /\ resp.body.error.code = "AGENT_EXECUTION_ERROR"

C10_Witness ==
    /\ QueryRequest /\ agent # "None" /\ ValidPayload /\ ~StreamMode
    /\ Ended("raised")
    /\ produced[Len(produced)].exc.cls = "ConnectionRefusedError"
    /\ resp.status = 503

----------------------------------------------------------------------------
(* Properties of the upload endpoint and of the error vocabulary, checked  *)
(* under SpecApi                                                           *)

UploadRequest == pc = "responded" /\ req.endpoint = "upload"

\* the upload passed validation and the named step ran
StepRan(step) == \E i \in 1..Len(steps) : steps[i] = step

\* the step of this upload that raised a connectivity-class failure, if any
UploadConnectivityFailureAt(step) ==
    /\ UploadRequest
    /\ req.fault # NoFault
    /\ req.fault.step = step
    /\ StepRan(step)
    /\ req.fault.exc.cls \in ConnectionErrorClasses

\* the delegate run of this agent query raised a connectivity-class failure
DelegateConnectivityFailure ==
    /\ QueryRequest
    /\ Ended("raised")
    /\ produced[Len(produced)].exc.cls \in ConnectionErrorClasses

\* the error code the client is given: in the JSON body, or in the last
\* event of a streamed body
ReportedCode ==
    IF resp.content_type = "application/json" THEN resp.body.error.code
    ELSE sse[Len(sse)].content.code

\* C11 as stated: on document upload and agent query a connectivity-class
\* failure raised at any processing step (document load, chunking,
\* storage-context creation, indexing, delegate run) yields code
\* SERVICE_UNAVAILABLE with HTTP 503, never another error code.
C11_AsStated ==
    ((\E step \in {"load", "chunk", "storage", "index"} : UploadConnectivityFailureAt(step))
       \/ DelegateConnectivityFailure)
    => (resp.status = 503 /\ ReportedCode = "SERVICE_UNAVAILABLE")

\* C11 (amended): a connectivity-class failure raised at storage-context
\* creation or indexing of an upload, or by the delegate run of a batch
\* agent query, yields code SERVICE_UNAVAILABLE with HTTP 503; raised by
\* the delegate run of a streaming agent query it yields an error event
\* with code SERVICE_UNAVAILABLE under the HTTP 200 already sent; raised
\* at document load it yields DOCUMENT_PARSE_ERROR with HTTP 400 and at
\* chunking CHUNKING_ERROR with HTTP 500.
C11_ConnectivityMapping ==
    /\ (UploadConnectivityFailureAt("storage") \/ UploadConnectivityFailureAt("index")
          \/ (DelegateConnectivityFailure /\ ~StreamMode))
       => (resp.status = 503 /\ resp.content_type = "application/json"
             /\ resp.body.error.code = "SERVICE_UNAVAILABLE")
    /\ (DelegateConnectivityFailure /\ StreamMode)
       => (resp.status = 200 /\ sse[Len(sse)].type = "error"
             /\ sse[Len(sse)].content.code = "SERVICE_UNAVAILABLE")
    /\ UploadConnectivityFailureAt("load")
       => (resp.status = 400 /\ resp.body.error.code = "DOCUMENT_PARSE_ERROR")
    /\ UploadConnectivityFailureAt("chunk")
       => (resp.status = 500 /\ resp.body.error.code = "CHUNKING_ERROR")

C11_Witness ==
    /\ UploadConnectivityFailureAt("index")
    /\ req.fault.exc.cls = "ConnectionRefusedError"
    /\ resp.status = 503
    /\ StepRan("rmtree")

\* the file name ends in a dot followed by pdf, txt or docx in any case
HasSupportedExtension(name) ==
    /\ Len(name) >= 2
    /\ name[Len(name) - 1] = "."
    /\ name[Len(name)] \in {"pdf", "PDF", "txt", "Txt", "docx"}

\* C12: an upload whose file name has an extension outside {.pdf, .txt,
\* .docx} (compared case-insensitively) or whose size exceeds 10 MB is
\* rejected with HTTP 400 and code VALIDATION_ERROR, whatever the rest of
\* the request, before a temporary file is written and before any load,
\* chunking, storage or indexing step runs.
C12_UploadRejected ==
    (UploadRequest /\ "file" \in DOMAIN req.data
       /\ (~HasSupportedExtension(req.data["file"].name)
             \/ req.data["file"].size > 10485760))
    => /\ resp.status = 400
       /\ resp.body.error.code = "VALIDATION_ERROR"
       /\ "file" \in DOMAIN resp.body.error.details
       /\ steps = <<>>

C12_Witness ==
    /\ UploadRequest /\ "file" \in DOMAIN req.data
    /\ HasSupportedExtension(req.data["file"].name)
    /\ req.data["file"].name[Len(req.data["file"].name)] = "PDF"
    /\ req.data["file"].size = 10485761
    /\ resp.status = 400
    /\ req.fault # NoFault

\* a batch agent query answered with the success envelope
BatchSuccess ==
    /\ QueryRequest /\ pc = "responded"
    /\ Ended("returned")
    /\ resp.status = 200

\* the tool calls the delegate reported for this request
InvokedCalls == produced[1].response.tool_calls

\* the position of the first invocation of a tool
FirstInvocation(name) ==
    CHOOSE i \in 1..Len(InvokedCalls) :
        /\ InvokedCalls[i].tool_name = name
        /\ \A j \in 1..(i - 1) : InvokedCalls[j].tool_name # name

GivenMessage == Strip(req.data["message"])
GivenPhone ==
    IF "phone_number" \in DOMAIN req.data THEN Strip(req.data["phone_number"]) ELSE <<>>

\* C17: in agent_query the prompt passed to the delegate equals the
\* message followed by the fixed bracketed phone-number annotation if and
\* only if a non-empty phone_number was supplied, and the message
\* unchanged otherwise, identically in streaming and batch mode; the
\* protocol layer itself never calls a tool function.
C17_PromptAnnotation ==
    (QueryRequest /\ ValidPayload /\ agent # "None") =>
        /\ pc = "opened" => runs = <<>>
        /\ pc # "opened" =>
              /\ Len(runs) = 1
              /\ GivenPhone # <<>> =>
                    runs[1] = GivenMessage \o <<"\n\n[User phone number: ">>
                              \o GivenPhone \o <<"]">>
              /\ GivenPhone = <<>> => runs[1] = GivenMessage
              /\ Contains(runs[1], <<"\n\n[User phone number: ">>) <=> (GivenPhone # <<>>)
        /\ last.op = "none"
        /\ \A i \in DOMAIN store : store[i].card_status = "active" /\ store[i].updated_at = 0

C17_Witness ==
    /\ QueryRequest /\ ValidPayload /\ agent # "None"
    /\ StreamMode /\ pc = "streaming"
    /\ GivenPhone = <<"+", "1">>
    /\ runs = << GivenMessage \o <<"\n\n[User phone number: ", "+", "1", "]">> >>

----------------------------------------------------------------------------
(* Properties of the OpenAI-compatible adapter, checked under SpecOpenAI *)

ChatRequest == pc # "idle" /\ req.endpoint = "chat_completions"

\* the request passed validation and the delegate was run for it
ChatRun == ChatRequest /\ runs # <<>>

\* the content of the last user message of the request, trimmed as the
\* serializer hands it on; empty when there is no user message
LastUserContent ==
    LET messages == req.data.messages
        users == {i \in 1..Len(messages) : messages[i].role = "user"}
    IN  IF users = {} THEN <<>>
        ELSE Strip(messages[CHOOSE i \in users : \A j \in users : j <= i].content)

\* the phone tokens of a text: the spans that open with "[phone:", close
\* with "]" and hold one or more digits, '+', '-' and spaces between
PhoneTokens(text) ==
    {span \in (1..Len(text)) \X (1..Len(text)) :
        /\ text[span[1]] = "[phone:"
        /\ text[span[2]] = "]"
        /\ span[2] > span[1] + 1
        /\ \A k \in (span[1] + 1)..(span[2] - 1) :
              text[k] \in {"+", "-", " ", "0", "1", "2", "3", "4", "5", "6", "7", "8", "9"}}

\* what the first phone token of a text holds, without the blanks around it
FirstPhone(text) ==
    LET first == CHOOSE span \in PhoneTokens(text) :
                     \A other \in PhoneTokens(text) : span[1] <= other[1]
    IN  Strip(SubSeq(text, first[1] + 1, first[2] - 1))

RECURSIVE VisibleFrom(_, _)
\* the characters of a text that are neither blank nor inside a phone
\* token, in order, from position i on
VisibleFrom(text, i) ==
    IF i > Len(text) THEN <<>>
    ELSE (IF text[i] = " " \/ \E span \in PhoneTokens(text) : span[1] <= i /\ i <= span[2]
          THEN <<>> ELSE <<text[i]>>) \o VisibleFrom(text, i + 1)

\* the user text of a folded prompt: what follows its "User: " marker
UserText(prompt) ==
    LET k == CHOOSE i \in 1..Len(prompt) : prompt[i] = "User: "
    IN  SubSeq(prompt, k + 1, Len(prompt))

\* the prompt the delegate was given, without the annotation appended to it
WithoutAnnotation(prompt) ==
    IF \E i \in 1..Len(prompt) : prompt[i] = "\n\n[User phone number: "
    THEN SubSeq(prompt, 1, (CHOOSE i \in 1..Len(prompt) :
                               prompt[i] = "\n\n[User phone number: ") - 1)
    ELSE prompt

\* C13 as stated: for an OpenAI-adapter request whose user message embeds
\* a token [phone: <digits/+/-/spaces>], the phone number is extracted as
\* the routing phone number, the token is stripped from the user text, and
\* the phone number does not appear literally in the prompt text forwarded
\* to the reasoning delegate.  (Stated for the requests in which the
\* number is written nowhere but in the token.)
C13_AsStated ==
    (ChatRun /\ PhoneTokens(LastUserContent) # {} /\ FirstPhone(LastUserContent) # <<>>
       /\ ~Contains(VisibleFrom(LastUserContent, 1), FirstPhone(LastUserContent)))
    => /\ extract_query_and_context(ValidatedMessages(req.data)).phone_number
              = FirstPhone(LastUserContent)
       /\ PhoneTokens(UserText(runs[1])) = {}
       /\ ~Contains(runs[1], FirstPhone(LastUserContent))

\* C13 (amended): for an OpenAI-adapter request whose last user message
\* embeds a token [phone: <digits/+/-/spaces>], the phone number of the
\* first such token is extracted as the routing phone number and every
\* such token is stripped from the user text, the rest of which is kept;
\* the prompt forwarded to the reasoning delegate is that folded text
\* followed, when the number is not empty, by the annotation
\* "[User phone number: <number>]", so the number does appear literally in
\* the forwarded prompt.
C13_PhoneRouted ==
    (ChatRun /\ PhoneTokens(LastUserContent) # {})
    => LET context == extract_query_and_context(ValidatedMessages(req.data))
           phone == FirstPhone(LastUserContent)
       IN  /\ context.phone_number = phone
           /\ PhoneTokens(context.query_text) = {}
           /\ VisibleFrom(UserText(context.query_text), 1) = VisibleFrom(LastUserContent, 1)
           /\ WithoutAnnotation(runs[1]) = context.query_text
           /\ runs[1] = IF phone # <<>>
                        THEN context.query_text \o <<"\n\n[User phone number: ">> \o phone \o <<"]">>
                        ELSE context.query_text

C13_Witness ==
    /\ ChatRun
    /\ Cardinality(PhoneTokens(LastUserContent)) = 2
    /\ FirstPhone(LastUserContent) = <<"1", "-", "1">>
    /\ Contains(runs[1], <<"\n\n[User phone number: ", "1", "-", "1", "]">>)
    /\ Len(req.data.messages) = 2

\* the lines of the streamed body that are chunks carrying content
ContentChunks ==
    {i \in 1..Len(sse) : /\ sse[i].type = "json"
                         /\ "choices" \in DOMAIN sse[i].data
                         /\ "content" \in DOMAIN sse[i].data.choices[1].delta}

\* C14: in OpenAI-adapter streaming mode a successful run emits one
\* chat.completion.chunk event per token/delta the delegate produced (all
\* with one id and created value, finish_reason null), then exactly one
\* chunk with empty delta and finish_reason stop, then the literal line
\* "data: [DONE]" as the last line, and never a JSON done marker.  (Stated
\* for the runs in which the delegate produced a delta.)
C14_ChunkPerDelta ==
    (ChatRequest /\ pc = "closed" /\ Ended("returned") /\ DeltasOf(produced) # <<>>)
    => LET deltas == DeltasOf(produced)
           n == Len(deltas)
       IN  /\ Len(sse) = n + 2
           /\ ContentChunks = 1..n
           /\ \A i \in 1..n :
                 /\ sse[i].data.object = "chat.completion.chunk"
                 /\ sse[i].data.choices[1].delta.content = <<deltas[i]>>
                 /\ sse[i].data.choices[1].finish_reason = "null"
                 /\ sse[i].data.id = sse[1].data.id
                 /\ sse[i].data.created = sse[1].data.created
           /\ sse[n + 1].type = "json"
           /\ sse[n + 1].data.object = "chat.completion.chunk"
           /\ DOMAIN sse[n + 1].data.choices[1].delta = {}
           /\ sse[n + 1].data.choices[1].finish_reason = "stop"
           /\ sse[n + 1].data.id = sse[1].data.id
           /\ sse[n + 2] = SseLiteral("[DONE]")
           /\ \A i \in 1..Len(sse) : sse[i].type = "json" => "type" \notin DOMAIN sse[i].data

\* the error documents the adapter has produced for this request: the
\* body of an error response and the error lines of a streamed body
ErrorDocuments ==
    (IF pc = "responded" /\ resp.status >= 400 THEN {resp.body} ELSE {})
    \cup {sse[i].data : i \in {k \in 1..Len(sse) : /\ sse[k].type = "json"
                                                   /\ "error" \in DOMAIN sse[k].data}}

\* C15: every error the OpenAI-compatible adapter produces, in both modes
\* and on every failure path, has the shape {error: {message, type, code?,
\* param?}} with type one of invalid_request_error,
\* service_unavailable_error, server_error.  (The optional details key
\* that _format_openai_error adds is not counted against the shape here.)
C15_OpenAIErrorShape ==
    ChatRequest =>
        \A document \in ErrorDocuments :
            /\ DOMAIN document = {"error"}
            /\ {"message", "type"} \subseteq DOMAIN document.error
            /\ DOMAIN document.error \subseteq {"message", "type", "code", "param", "details"}
            /\ document.error.type \in
                  {"invalid_request_error", "service_unavailable_error", "server_error"}

----------------------------------------------------------------------------
(* Properties of the account store, checked under SpecStore *)

\* the insert that ran last repeats a username or a phone number of the
\* table it was made into
DuplicateInsert ==
    /\ last.op = "create"
    /\ \E i \in DOMAIN last.pre : \/ last.pre[i].username = last.arg.username
                                  \/ last.pre[i].phone_number = last.arg.phone_number

\* C18: in every reachable state of the account store no two rows share a
\* username and no two share a phone number: an insert that duplicates
\* either value fails and leaves the store unchanged (and any other
\* insert adds its row).
C18_Uniqueness ==
    /\ \A i, j \in DOMAIN store :
          i # j => /\ store[i].username # store[j].username
                   /\ store[i].phone_number # store[j].phone_number
    /\ DuplicateInsert => (last.outcome.kind = "raise" /\ store = last.pre)
    /\ (last.op = "create" /\ ~DuplicateInsert) =>
          /\ last.outcome.kind = "return"
          /\ Len(store) = Len(last.pre) + 1
          /\ store[Len(store)].username = last.arg.username
          /\ store[Len(store)].phone_number = last.arg.phone_number

C18_Witness ==
    /\ DuplicateInsert
    /\ Len(last.pre) = 1
    /\ last.pre[1].username = last.arg.username
    /\ last.pre[1].phone_number # last.arg.phone_number
    /\ last.outcome.kind = "raise"
    /\ store = last.pre

----------------------------------------------------------------------------
(* Properties of the card tools over pairs of account stores, checked      *)
(* under SpecTools                                                         *)

\* other leading characters a card number may have
LeadingChars == {<<>>, <<"9">>, <<"9", "9", "-">>}

\* the card numbers that differ from c only in the characters before its
\* last 4
SameLast4(c) ==
    IF Len(c) < 4 THEN {c} ELSE {lead \o Suffix(c, 4) : lead \in LeadingChars} \cup {c}

\* the account stores that differ from st only in the leading characters
\* of card numbers
StoresWithSameLast4(st) ==
    {v \in [DOMAIN st -> UNION {{[st[i] EXCEPT !.credit_card_number = c] :
                                     c \in SameLast4(st[i].credit_card_number)} : i \in DOMAIN st}] :
        \A i \in DOMAIN st : v[i] = [st[i] EXCEPT !.credit_card_number = v[i].credit_card_number]}

\* the output of the call that ran last, had it run against the store v
\* (with the same argument, the same store fault and the same instants)
OutputAgainst(v) ==
    IF last.op = "block_credit_card"
    THEN block_credit_card(v, 0, last.arg, last.fault, clock, clock).outcome
    ELSE enable_credit_card(v, 0, last.arg, last.fault, clock, clock).outcome

CardToolCall == last.op \in {"block_credit_card", "enable_credit_card"}

\* C19: the output of block_credit_card and enable_credit_card depends on
\* the stored card number only through its last 4 characters: against any
\* store that differs from the one the call ran on only in the leading
\* characters of card numbers, the same call returns the same string.
C19_Last4Only ==
    CardToolCall =>
        \A v \in StoresWithSameLast4(last.pre) : OutputAgainst(v) = last.outcome

C19_Witness ==
    /\ CardToolCall
    /\ last.outcome.kind = "return"
    /\ Contains(last.outcome.value, <<"Card ending in: ">>)
    /\ Contains(last.outcome.value, <<"\nBlocked at: ">>)
    /\ \E v \in StoresWithSameLast4(last.pre), i \in DOMAIN last.pre :
          /\ last.pre[i].phone_number = NormalizePhone(last.arg)
          /\ v[i].credit_card_number # last.pre[i].credit_card_number
          /\ OutputAgainst(v) = last.outcome

----------------------------------------------------------------------------
(* Properties of concurrent tool calls, checked under SpecRace *)

\* the writes that reached the row id, in the order they reached storage
WritesTo(id) == SelectSeq(writes, LAMBDA x : x.id = id)

\* C20: when block and enable requests for the same phone number run
\* concurrently, the last write to reach storage wins: the status of a row
\* is the status written by the last write that reached it, and the status
\* of every row is always one of active or blocked.
C20_LastWriteWins ==
    /\ \A id \in DOMAIN store : store[id].card_status \in CARD_STATUS_CHOICES
    /\ \A id \in DOMAIN store :
          WritesTo(id) # <<>> =>
              store[id].card_status = WritesTo(id)[Len(WritesTo(id))].status

\* a block and an enable of one account overlapped, both wrote, and the
\* write that landed last came from the instance that was read first
C20_Witness ==
    /\ Len(writes) >= 2
    /\ LET k == Len(writes)
       IN  /\ writes[k].id = writes[k - 1].id
           /\ writes[k].worker # writes[k - 1].worker
           /\ writes[k].status # writes[k - 1].status
           /\ writes[k].seen < writes[k - 1].seen
           /\ store[writes[k].id].card_status = writes[k].status

----------------------------------------------------------------------------
(* Properties of a sequential series of card tool calls, checked under     *)
(* SpecSeries                                                              *)

Requested(op) == IF op = "block_credit_card" THEN "blocked" ELSE "active"

\* the call k of the series was made for the row i and the store answered it
AnsweredFor(k, i) ==
    /\ calls[k].fault = "none"
    /\ calls[k].pre[i].phone_number = LookedUp(calls[k].arg)

\* the calls of the series after which updated_at of row i differs from
\* what it was before the call
UpdatedAtChanges(i) ==
    {k \in DOMAIN calls : calls[k].post[i].updated_at # calls[k].pre[i].updated_at}

\* the calls of the series made for row i, answered by the store, whose
\* requested status differed from the status at the time of the call
DifferingCalls(i) ==
    {k \in DOMAIN calls : AnsweredFor(k, i) /\ calls[k].pre[i].card_status # Requested(calls[k].op)}

\* the calls of the series made for row i and answered by the store
CallsFor(i) == {k \in DOMAIN calls : AnsweredFor(k, i)}

\* C21: after any sequential series of block_credit_card and
\* enable_credit_card calls on an existing account (the store answering
\* them), the stored status is blocked if the last call was block and
\* active if the last call was enable, and updatedAt changed exactly as
\* many times as there were calls whose requested status differed from
\* the status at the time of the call.
C21_SeriesOutcome ==
    \A i \in DOMAIN store :
        /\ (Len(calls) > 0 /\ AnsweredFor(Len(calls), i)) =>
              store[i].card_status = Requested(calls[Len(calls)].op)
        /\ Cardinality(UpdatedAtChanges(i)) = Cardinality(DifferingCalls(i))
        /\ UpdatedAtChanges(i) = DifferingCalls(i)
        /\ \A k \in DOMAIN calls :
              calls[k].post = (IF k = Len(calls) THEN store ELSE calls[k + 1].pre)

\* three answered calls for one account, one of them a no-op: two changes
C21_Witness ==
    /\ Len(calls) = 3
    /\ \E i \in DOMAIN store :
          /\ CallsFor(i) = {1, 2, 3}
          /\ Cardinality(UpdatedAtChanges(i)) = 2
          /\ calls[1].op = "block_credit_card"
          /\ calls[2].op = "block_credit_card"
          /\ calls[3].op = "enable_credit_card"
          /\ calls[1].arg # calls[2].arg
          /\ store[i].card_status = "active"

----------------------------------------------------------------------------
(* Frame of the tool calls, checked under SpecTools *)

\* the columns of a row that no tool call writes
FrameOf(row) ==
    [id |-> row.id, username |-> row.username, phone_number |-> row.phone_number,
     credit_card_number |-> row.credit_card_number, created_at |-> row.created_at]

\* C22: accounts are mutated only by the two card tools and only in
\* status and updatedAt of the row whose phone number matches: a card tool
\* call leaves id, username, phoneNumber, cardNumber and createdAt of that
\* row and every field of every other row unchanged, a search leaves the
\* whole table unchanged, and no call creates or deletes a row.
C22_Frame ==
    last.op # "none" =>
        /\ DOMAIN store = DOMAIN last.pre
        /\ \A i \in DOMAIN last.pre :
              /\ FrameOf(store[i]) = FrameOf(last.pre[i])
              /\ (~IsCardCall \/ i \notin Addressed) => store[i] = last.pre[i]

C22_Witness ==
    /\ IsCardCall
    /\ \E i \in Addressed :
          /\ store[i].card_status # last.pre[i].card_status
          /\ store[i].updated_at # last.pre[i].updated_at
          /\ FrameOf(store[i]) = FrameOf(last.pre[i])
          /\ \E j \in DOMAIN store : j # i /\ store[j] = last.pre[j]

----------------------------------------------------------------------------
(* Phone normalisation in the card tools, checked under SpecTools *)

\* what the call that ran last leaves behind when made with the argument p
\* against the same table, under the same store fault and at the same instants
EffectWith(p) ==
    IF last.op = "block_credit_card"
    THEN block_credit_card(last.pre, 0, p, last.fault, clock, clock)
    ELSE enable_credit_card(last.pre, 0, p, last.fault, clock, clock)

LacksPlus(p) == p = <<>> \/ p[1] # "+"

\* C23: phone normalisation prepends '+' exactly when the input does not
\* start with '+' and is idempotent, and a card tool called with a number
\* lacking the leading '+' acts on the same account and has the same
\* effect on the store (and returns the same text) as the call with the
\* '+'-prefixed number.
C23_Normalisation ==
    (IsCardCall /\ StringArg) =>
        /\ NormalizePhone(last.arg) = (IF LacksPlus(last.arg) THEN <<"+">> \o last.arg ELSE last.arg)
        /\ NormalizePhone(NormalizePhone(last.arg)) = NormalizePhone(last.arg)
        /\ LacksPlus(last.arg) =>
              /\ EffectWith(<<"+">> \o last.arg).store = store
              /\ EffectWith(<<"+">> \o last.arg).outcome = last.outcome
              /\ \A i \in DOMAIN last.pre :
                    store[i] # last.pre[i] => last.pre[i].phone_number = <<"+">> \o last.arg

C23_Witness ==
    /\ IsCardCall /\ StringArg
    /\ LacksPlus(last.arg)
    /\ \E i \in DOMAIN last.pre :
          /\ last.pre[i].phone_number = <<"+">> \o last.arg
          /\ store[i].card_status # last.pre[i].card_status
    /\ EffectWith(<<"+">> \o last.arg).store = store
    /\ \E j \in DOMAIN last.pre : last.pre[j].phone_number = last.arg /\ store[j] = last.pre[j]

----------------------------------------------------------------------------
(* Folding of the message list, checked under SpecOpenAI *)

\* the validated messages of the request that have the given role
WithRole(role) ==
    SelectSeq(ValidatedMessages(req.data), LAMBDA m : m.role = role)

\* how many tokens of a text are the given marker
Markers(text, marker) == Cardinality({i \in 1..Len(text) : text[i] = marker})

\* C24: _extract_query_and_context folds any message list into one prompt
\* in which all system message contents are concatenated, every assistant
\* turn appears as a history line, and the live query is the content of
\* the last user message only (earlier user messages do not appear); the
\* routing phone number is the one embedded in that last user message and
\* is empty when the last user message carries no phone token.
C24_FoldedPrompt ==
    ChatRun =>
        LET context == extract_query_and_context(ValidatedMessages(req.data))
            query_text == context.query_text
        IN  /\ \A i \in 1..Len(WithRole("system")) :
                  Contains(query_text, WithRole("system")[i].content)
            /\ Markers(query_text, "System Instructions: ")
                  = (IF WithRole("system") = <<>> THEN 0 ELSE 1)
            /\ \A i \in 1..Len(WithRole("assistant")) :
                  Contains(query_text, <<"Assistant: ">> \o WithRole("assistant")[i].content)
            /\ Markers(query_text, "Assistant: ") = Len(WithRole("assistant"))
            /\ Markers(query_text, "User: ") = 1
            /\ VisibleFrom(UserText(query_text), 1) = VisibleFrom(LastUserContent, 1)
            /\ PhoneTokens(LastUserContent) = {} => UserText(query_text) = LastUserContent
            /\ context.phone_number = (IF PhoneTokens(LastUserContent) = {} THEN <<>>
                                       ELSE FirstPhone(LastUserContent))

----------------------------------------------------------------------------
(* Termination of agent-query requests, checked under SpecApiLive *)

\* the handler of an agent-query request is waiting for the delegate
QueryInFlight == QueryRequest /\ pc \in {"opened", "streaming", "running"}

\* the response of an agent-query request has ended
QueryAnswered == QueryRequest /\ pc \in {"responded", "closed"}

\* the terminal outcomes the response carries: a JSON body, or the done
\* and error events of a streamed body
TerminalOutcomes ==
    Cardinality(Positions({"done", "error"}))
    + (IF resp.content_type = "application/json" THEN 1 ELSE 0)

\* the terminal outcome is the one the end of the delegate run calls for
\* and nothing follows it
OutcomeMatchesEnd ==
    /\ Ended("exhausted") => (sse # <<>> /\ sse[Len(sse)].type = "done")
    /\ (Ended("raised") /\ pc = "closed") => (sse # <<>> /\ sse[Len(sse)].type = "error")
    /\ (Ended("raised") /\ pc = "responded") => "error" \in DOMAIN resp.body
    /\ Ended("returned") => resp.body.status = "success"

\* C25: for every agent-query request (batch or streaming) whose delegate
\* run terminates, by returning, by exhausting its event stream or by
\* raising, the handler eventually produces exactly one terminal outcome
\* (JSON body, done event or error event) and the response ends; while the
\* delegate has not completed no terminal outcome is out.
C25_EventuallyOneOutcome ==
    /\ [](QueryInFlight => TerminalOutcomes = 0)
    /\ [](QueryAnswered => (TerminalOutcomes = 1 /\ OutcomeMatchesEnd))
    /\ (QueryInFlight ~> QueryAnswered)

C25_Witness ==
    /\ QueryAnswered
    /\ pc = "closed"
    /\ Ended("raised")
    /\ Len(produced) = 3
    /\ Len(sse) = 3
    /\ TerminalOutcomes = 1

----------------------------------------------------------------------------
(* Properties of the retry helpers, checked under SpecRetry *)

RetryRunning == retry.pc \in {"calling", "done"}

Decorated == retry.helper = "retry_with_exponential_backoff"

\* the delay before the retry that follows attempt number k (from 1),
\* stated independently of the helpers: the initial delay doubled k - 1
\* times, and in the decorator no more than max_delay
ExpectedDelay(k) ==
    LET doubled == retry.initial_delay * Pow2(k - 1)
    IN  IF Decorated /\ doubled > retry.max_delay THEN retry.max_delay ELSE doubled

\* C26: both retry helpers call the wrapped function at most
\* max_retries + 1 times, return the first successful result without any
\* further call, wait between consecutive attempts with a delay that
\* doubles each time (capped at max_delay in the decorator) and never wait
\* after the final attempt, and raise an error derived from the last
\* exception when every attempt fails.  (Stated for max_retries >= 0 and
\* initial_delay <= max_delay.)
C26_BoundedRetries ==
    RetryRunning =>
        LET n == Len(retry.attempts)
        IN  /\ n <= retry.max_retries + 1
            /\ \A k \in 1..(n - 1) : retry.attempts[k].kind = "raise"
            /\ Len(retry.sleeps) = (IF retry.pc = "done" THEN n - 1 ELSE n)
            /\ \A k \in 1..Len(retry.sleeps) : retry.sleeps[k] = ExpectedDelay(k)
            /\ retry.pc = "done" =>
                  /\ retry.attempts[n].kind = "return" => retry.result = retry.attempts[n]
                  /\ retry.attempts[n].kind = "raise" =>
                        /\ retry.result.kind = "raise"
                        /\ IF Decorated THEN retry.result.exc.cause = retry.attempts[n].exc
                           ELSE retry.result.exc = retry.attempts[n].exc
                  /\ (n = retry.max_retries + 1 /\ \A k \in 1..n : retry.attempts[k].kind = "raise")
                        => retry.result.kind = "raise"

C26_Witness ==
    /\ retry.pc = "done"
    /\ Decorated
    /\ retry.max_retries = 2
    /\ retry.sleeps = <<2, 3>>
    /\ retry.attempts[3].kind = "return"
    /\ retry.result.kind = "return"

\* the attempt that ended the run failed with an authentication-class error
AuthFailureEnded ==
    /\ retry.pc = "done"
    /\ Decorated
    /\ retry.attempts[Len(retry.attempts)].kind = "raise"
    /\ \E i \in 1..Len(retry.attempts[Len(retry.attempts)].exc.text) :
          retry.attempts[Len(retry.attempts)].exc.text[i]
              \in {"credentials", "Access Denied"}

\* C27: under retry_with_exponential_backoff, for every max_retries >= 0
\* and on whichever attempt it occurs, an authentication-class failure is
\* never retried: the wrapped function is not called again (no attempt
\* follows one that failed that way) and BedrockAuthenticationError, not
\* BedrockServiceError, is raised.
C27_AuthNeverRetried ==
    /\ (RetryRunning /\ Decorated) =>
          \A k \in 1..(Len(retry.attempts) - 1) :
              ~\E i \in 1..Len(retry.attempts[k].exc.text) :
                  retry.attempts[k].exc.text[i] \in {"credentials", "Access Denied"}
    /\ AuthFailureEnded => retry.result.exc.cls = "BedrockAuthenticationError"

----------------------------------------------------------------------------
(* The two singletons of the worker process, checked under SpecApi *)

\* the code and the mode of the answer to the agent-query request
AnsweredUnavailable ==
    IF StreamMode
    THEN /\ pc = "closed"
         /\ Len(sse) = 1
         /\ sse[1].type = "error"
         /\ sse[1].content.error.code = "SERVICE_UNAVAILABLE"
    ELSE /\ pc = "responded"
         /\ resp.body.error.code = "SERVICE_UNAVAILABLE"

\* C28: whenever the LLM client failed to initialize (llm is None) the
\* agent singleton is None as well, so in every process state in which the
\* health probe reports aws_bedrock unhealthy for that reason, every valid
\* agent-query request answers SERVICE_UNAVAILABLE and the delegate is
\* never run.
C28_NoLlmNoAgent ==
    /\ llm = "None" => agent = "None"
    /\ HealthAnswered =>
          ((resp.body.services["aws_bedrock"].status = "unhealthy") <=> (llm = "None"))
    /\ (QueryRequest /\ ValidPayload /\ llm = "None") =>
          /\ resp.status = 503
          /\ AnsweredUnavailable
          /\ runs = <<>>
          /\ produced = <<>>

C28_Witness ==
    /\ QueryRequest /\ ValidPayload /\ llm = "None"
    /\ StreamMode
    /\ AnsweredUnavailable
    /\ runs = <<>>

----------------------------------------------------------------------------
(* The agent_unavailable error of the OpenAI-compatible adapter, checked   *)
(* under SpecOpenAI                                                        *)

ChatAnswered == ChatRequest /\ pc \in {"responded", "closed"}

\* the answer carries the agent_unavailable error, as a JSON body or as a
\* line of the streamed body
ReportedAgentUnavailable ==
    \/ /\ "error" \in DOMAIN resp.body
       /\ "code" \in DOMAIN resp.body.error
       /\ resp.body.error.code = "agent_unavailable"
    \/ \E i \in 1..Len(sse) :
          /\ sse[i].type = "json"
          /\ "error" \in DOMAIN sse[i].data
          /\ "code" \in DOMAIN sse[i].data.error
          /\ sse[i].data.error.code = "agent_unavailable"

\* C29: in the OpenAI-compatible adapter (both modes) the
\* agent_unavailable / service_unavailable_error response is produced only
\* when the agent failed to initialize (agent is None); an exception
\* raised by an initialized delegate during execution, including a
\* RuntimeError, is never reported as agent_unavailable.
C29_UnavailableOnlyWithoutAgent ==
    ChatAnswered =>
        /\ ReportedAgentUnavailable => agent = "None"
        /\ Ended("raised") => ~ReportedAgentUnavailable

----------------------------------------------------------------------------
(* Concurrent calls of one tool, checked under SpecRace *)

\* the writes j and k reached the same row one after the other
Successive(j, k) ==
    /\ j < k
    /\ writes[j].id = writes[k].id
    /\ \A m \in (j + 1)..(k - 1) : writes[m].id # writes[j].id

\* the last call of the worker returned the success message of its tool
ReturnedSuccess(w, status) ==
    /\ workers[w].pc = "idle"
    /\ Contains(workers[w].outcome.value,
                IF status = "blocked" THEN <<"Successfully blocked credit card">>
                ELSE <<"Successfully enabled credit card">>)

\* C30 as stated: for two block_credit_card calls running concurrently on
\* the same active account (and two enable_credit_card calls on a blocked
\* account) at most one call returns the success message and writes the
\* row, the other returning the "already" message without writing, so
\* that the results match some serial order: no row is written twice in
\* succession with the same status.
C30_AsStated ==
    \A j, k \in DOMAIN writes :
        Successive(j, k) => writes[k].status # writes[j].status

\* C30 (amended): of two block_credit_card calls running concurrently on
\* the same active account (and two enable_credit_card calls on a blocked
\* account) each call that read the row before the other's write reached
\* storage returns the success message and writes the row, so both may;
\* a call that reads after that write returns the "already" message
\* without writing.  A call writes only a status other than the one it
\* read, and a row is written twice in succession with the same status
\* only by a call that read it before the earlier of the two writes.
C30_BothMayWrite ==
    /\ \A k \in DOMAIN writes : writes[k].read # writes[k].status
    /\ \A j, k \in DOMAIN writes :
          (Successive(j, k) /\ writes[k].status = writes[j].status) => writes[k].seen < j
    /\ \A w \in RaceWorkers :
          (workers[w].pc = "fetched") =>
              workers[w].cardholder.card_status # ToolStatus(workers[w].op)

C30_Witness ==
    /\ Len(writes) = 2
    /\ Successive(1, 2)
    /\ writes[1].status = "blocked" /\ writes[2].status = "blocked"
    /\ writes[1].worker # writes[2].worker
    /\ writes[2].seen = 0
    /\ \A w \in RaceWorkers : ReturnedSuccess(w, "blocked")
    /\ store[writes[2].id].card_status = "blocked"

=============================================================================
